---- MODULE Spec2Model ----
(***************************************************************************)
(* A model of the LSR integration's data-refresh coordinator               *)
(* (custom_components/lsr/coordinator.py, version 1.1.2) together with the *)
(* API client functions it calls (custom_components/lsr/api_client.py).    *)
(* The repository also holds the coordinator of version 1.0.3              *)
(* (src/coordinator.py); its refresh is modelled next to the current one,  *)
(* in the variable stream.                                                 *)
(*                                                                         *)
(* Representation of Python values:                                        *)
(*   - a str that the code inspects (regular expressions, strip, split,    *)
(*     strptime, float) is a sequence of one-character strings; TLA+       *)
(*     strings are ASCII, so the Cyrillic literals of the source are       *)
(*     written in Latin letters: "L/s #" stands for the source's           *)
(*     account-title marker, "Adres ne raspoznan", "L/s ne nayden" and     *)
(*     "Oshibka" for its three sentinels;                                  *)
(*   - a dict whose key order is never observed is a function; a dict the  *)
(*     code iterates (history_dict, the meters of an account, the          *)
(*     snapshot of the accounts) is a sequence of <<key, value>> pairs in  *)
(*     insertion order;                                                    *)
(*   - a missing key of a JSON object is a field absent from the record's  *)
(*     DOMAIN; a key whose value is null is a field that holds None: the   *)
(*     value <<NONE>> where the key's other values are texts, NoneList     *)
(*     where they are lists or dicts kept as pairs, NoneDict where they    *)
(*     are other objects (TLC compares values of one kind only); None for  *)
(*     a token is NoToken, None for a meter's type id is NONE;             *)
(*   - an id is a str of the service: the                                  *)
(*     integer n > 0 is the id that the decimal n writes, EMPTY_ID is the  *)
(*     empty str and NONE_ID is None, the two ids that Python takes as     *)
(*     false; a count is an integer and a reading a float [m, e] for       *)
(*     m / 10^e, or INF, NEG_INF, NAN;                                     *)
(*   - an exception is a record [type, msg], msg a sequence of fragments.  *)
(*                                                                         *)
(* Every await of the coroutines is one action: the reply of the awaited   *)
(* call arrives and the coroutine runs, atomically as asyncio runs it, up  *)
(* to the next call it awaits.                                             *)
(***************************************************************************)
EXTENDS Integers, Sequences, FiniteSets, TLC

(***************************************************************************)
(* Bounds of the model.                                                    *)
(***************************************************************************)
\* refresh cycles started in one behaviour
MaxRefreshes == 3
\* accounts the upstream lists
NumAccounts == 2
\* revisions of the upstream's data
MaxGen == 2
\* replies of the data operations that fail in one behaviour
MaxFaults == 1
\* cameras of the account whose stream URLs are resolved
MaxCameras == 2
\* history items of a meter whose history is merged on its own
MaxItems == 2
MaxRows == 2
\* calls of async_force_update_sensors in flight together
MaxForced == 2
\* refreshes of version 1.0.3 that ended with stream-URL requests still out
MaxLeft == 2

(***************************************************************************)
(* Program constants.                                                      *)
(***************************************************************************)
\* _authenticate: max_attempts = 5
max_attempts == 5
\* _authenticate: await asyncio.sleep(15)
RETRY_DELAY == 15
\* the HTTP and application status the client accepts
HTTP_OK == 200

\* self.access_token = None
NoToken == 0

\* the refreshes that may be in flight together: the scheduled refresh of
\* the DataUpdateCoordinator, and the calls of async_force_update_sensors,
\* which nothing serializes
ForcedSlot(i) == IF i = 1 THEN "forced" ELSE "forced" \o ToString(i)
ForcedRefreshers == {ForcedSlot(i) : i \in 1..MaxForced}
Refreshers == {"scheduled"} \cup ForcedRefreshers

(***************************************************************************)
(* Results of calls that may raise.                                        *)
(***************************************************************************)
Ok(v) == [ok |-> TRUE, value |-> v]
Raise(type, msg) == [ok |-> FALSE, err |-> [type |-> type, msg |-> msg]]

EmptyDict == <<>>
\* key in d
Has(d, key) == d # EmptyDict /\ key \in DOMAIN d
\* dict.get(key, default): the value of a key that is there, None included;
\* where the code lets the default be None and only tests the value's
\* truth, the default here is the empty value
Get(d, key, default) == IF Has(d, key) THEN d[key] ELSE default
\* None where the other values are atomic strings
NONE == "None"
\* None where the other values are dicts
NoneDict == [None |-> TRUE]
IsNoneDict(d) == Has(d, NONE)
\* the ids that are no text of digits: the empty str and None
EMPTY_ID == 0
NONE_ID == -1
\* None where the other values are lists of dicts, or dicts kept as pairs
NoneList == <<[NoneList |-> TRUE]>>
IsNoneList(v) == v = NoneList
\* None where the other values are texts
IsNone(v) == v = <<NONE>>
\* Python truthiness of a payload value that is a str, or None
Truthy(v) == v # <<>> /\ ~IsNone(v)
\* Python truthiness of a payload value that is a dict, or None
TruthyDict(d) == d # EmptyDict /\ ~IsNoneDict(d)
\* the exceptions of using None as a dict, a list or a str
NoneHasNo(attr) ==
    Raise("AttributeError", <<"'NoneType' object has no attribute '", attr, "'">>)
NOT_SUBSCRIPTABLE == Raise("TypeError", <<"'NoneType' object is not subscriptable">>)
NOT_ITERABLE == Raise("TypeError", <<"'NoneType' object is not iterable">>)
\* d[k] = v
Put(d, k, v) == [x \in (DOMAIN d) \cup {k} |-> IF x = k THEN v ELSE d[x]]
\* the keys of a dict kept as <<key, value>> pairs in insertion order, and
\* d[key] of a key that is there
Keys(pairs) == {pairs[i][1] : i \in 1..Len(pairs)}
Value(pairs, key) == pairs[CHOOSE i \in 1..Len(pairs) : pairs[i][1] = key][2]

Min(S) == CHOOSE x \in S : \A y \in S : x <= y
Max(S) == CHOOSE x \in S : \A y \in S : y <= x
\* F(v): the value v is computed once and then named, as an assignment does
With(v, F(_)) == CHOOSE r \in {F(x) : x \in {v}} : TRUE
\* the later step of a computation that may have raised
Then(r, F(_)) == With(r, LAMBDA x : IF x.ok THEN F(x.value) ELSE x)

\* d[key] and list[n - 1] of Python
Item(d, key) ==
    IF IsNoneDict(d) THEN NOT_SUBSCRIPTABLE
    ELSE IF ~Has(d, key) THEN Raise("KeyError", <<"'" \o key \o "'">>)
    ELSE Ok(d[key])
At(list, n) ==
    IF IsNoneList(list) THEN NOT_SUBSCRIPTABLE
    ELSE IF Len(list) < n THEN Raise("IndexError", <<"list index out of range">>)
    ELSE Ok(list[n])
\* d.get(key, default) of a value that may be None
DictGet(d, key, default) ==
    IF IsNoneDict(d) THEN NoneHasNo("get") ELSE Ok(Get(d, key, default))

(***************************************************************************)
(* Text: the str operations the normalizing code uses.                     *)
(***************************************************************************)
\* the characters str.strip() removes (str.isspace); a character that TLA+
\* strings cannot hold is written as its code point
AsciiSpace == {" ", "\t", "\n", "\r", "\f", "U+000B"}
Separators == {"U+001C", "U+001D", "U+001E", "U+001F"}
UnicodeSpace ==
    {"U+0085", "U+00A0", "U+1680", "U+2000", "U+2001", "U+2002", "U+2003",
     "U+2004", "U+2005", "U+2006", "U+2007", "U+2008", "U+2009", "U+200A",
     "U+2028", "U+2029", "U+202F", "U+205F", "U+3000"}
Whitespace == AsciiSpace \cup Separators \cup UnicodeSpace
\* the characters \d matches and int(), float() and strptime read as
\* digits: the decimal digits of every script (the 660 characters of the
\* Unicode category Nd), in the order of their code points, which is ten
\* digits 0..9 after ten
DigitChars ==
    <<"0", "1", "2", "3", "4", "5", "6", "7", "8", "9",
      "U+0660", "U+0661", "U+0662", "U+0663", "U+0664", "U+0665", "U+0666", "U+0667", "U+0668", "U+0669",
      "U+06F0", "U+06F1", "U+06F2", "U+06F3", "U+06F4", "U+06F5", "U+06F6", "U+06F7", "U+06F8", "U+06F9",
      "U+07C0", "U+07C1", "U+07C2", "U+07C3", "U+07C4", "U+07C5", "U+07C6", "U+07C7", "U+07C8", "U+07C9",
      "U+0966", "U+0967", "U+0968", "U+0969", "U+096A", "U+096B", "U+096C", "U+096D", "U+096E", "U+096F",
      "U+09E6", "U+09E7", "U+09E8", "U+09E9", "U+09EA", "U+09EB", "U+09EC", "U+09ED", "U+09EE", "U+09EF",
      "U+0A66", "U+0A67", "U+0A68", "U+0A69", "U+0A6A", "U+0A6B", "U+0A6C", "U+0A6D", "U+0A6E", "U+0A6F",
      "U+0AE6", "U+0AE7", "U+0AE8", "U+0AE9", "U+0AEA", "U+0AEB", "U+0AEC", "U+0AED", "U+0AEE", "U+0AEF",
      "U+0B66", "U+0B67", "U+0B68", "U+0B69", "U+0B6A", "U+0B6B", "U+0B6C", "U+0B6D", "U+0B6E", "U+0B6F",
      "U+0BE6", "U+0BE7", "U+0BE8", "U+0BE9", "U+0BEA", "U+0BEB", "U+0BEC", "U+0BED", "U+0BEE", "U+0BEF",
      "U+0C66", "U+0C67", "U+0C68", "U+0C69", "U+0C6A", "U+0C6B", "U+0C6C", "U+0C6D", "U+0C6E", "U+0C6F",
      "U+0CE6", "U+0CE7", "U+0CE8", "U+0CE9", "U+0CEA", "U+0CEB", "U+0CEC", "U+0CED", "U+0CEE", "U+0CEF",
      "U+0D66", "U+0D67", "U+0D68", "U+0D69", "U+0D6A", "U+0D6B", "U+0D6C", "U+0D6D", "U+0D6E", "U+0D6F",
      "U+0DE6", "U+0DE7", "U+0DE8", "U+0DE9", "U+0DEA", "U+0DEB", "U+0DEC", "U+0DED", "U+0DEE", "U+0DEF",
      "U+0E50", "U+0E51", "U+0E52", "U+0E53", "U+0E54", "U+0E55", "U+0E56", "U+0E57", "U+0E58", "U+0E59",
      "U+0ED0", "U+0ED1", "U+0ED2", "U+0ED3", "U+0ED4", "U+0ED5", "U+0ED6", "U+0ED7", "U+0ED8", "U+0ED9",
      "U+0F20", "U+0F21", "U+0F22", "U+0F23", "U+0F24", "U+0F25", "U+0F26", "U+0F27", "U+0F28", "U+0F29",
      "U+1040", "U+1041", "U+1042", "U+1043", "U+1044", "U+1045", "U+1046", "U+1047", "U+1048", "U+1049",
      "U+1090", "U+1091", "U+1092", "U+1093", "U+1094", "U+1095", "U+1096", "U+1097", "U+1098", "U+1099",
      "U+17E0", "U+17E1", "U+17E2", "U+17E3", "U+17E4", "U+17E5", "U+17E6", "U+17E7", "U+17E8", "U+17E9",
      "U+1810", "U+1811", "U+1812", "U+1813", "U+1814", "U+1815", "U+1816", "U+1817", "U+1818", "U+1819",
      "U+1946", "U+1947", "U+1948", "U+1949", "U+194A", "U+194B", "U+194C", "U+194D", "U+194E", "U+194F",
      "U+19D0", "U+19D1", "U+19D2", "U+19D3", "U+19D4", "U+19D5", "U+19D6", "U+19D7", "U+19D8", "U+19D9",
      "U+1A80", "U+1A81", "U+1A82", "U+1A83", "U+1A84", "U+1A85", "U+1A86", "U+1A87", "U+1A88", "U+1A89",
      "U+1A90", "U+1A91", "U+1A92", "U+1A93", "U+1A94", "U+1A95", "U+1A96", "U+1A97", "U+1A98", "U+1A99",
      "U+1B50", "U+1B51", "U+1B52", "U+1B53", "U+1B54", "U+1B55", "U+1B56", "U+1B57", "U+1B58", "U+1B59",
      "U+1BB0", "U+1BB1", "U+1BB2", "U+1BB3", "U+1BB4", "U+1BB5", "U+1BB6", "U+1BB7", "U+1BB8", "U+1BB9",
      "U+1C40", "U+1C41", "U+1C42", "U+1C43", "U+1C44", "U+1C45", "U+1C46", "U+1C47", "U+1C48", "U+1C49",
      "U+1C50", "U+1C51", "U+1C52", "U+1C53", "U+1C54", "U+1C55", "U+1C56", "U+1C57", "U+1C58", "U+1C59",
      "U+A620", "U+A621", "U+A622", "U+A623", "U+A624", "U+A625", "U+A626", "U+A627", "U+A628", "U+A629",
      "U+A8D0", "U+A8D1", "U+A8D2", "U+A8D3", "U+A8D4", "U+A8D5", "U+A8D6", "U+A8D7", "U+A8D8", "U+A8D9",
      "U+A900", "U+A901", "U+A902", "U+A903", "U+A904", "U+A905", "U+A906", "U+A907", "U+A908", "U+A909",
      "U+A9D0", "U+A9D1", "U+A9D2", "U+A9D3", "U+A9D4", "U+A9D5", "U+A9D6", "U+A9D7", "U+A9D8", "U+A9D9",
      "U+A9F0", "U+A9F1", "U+A9F2", "U+A9F3", "U+A9F4", "U+A9F5", "U+A9F6", "U+A9F7", "U+A9F8", "U+A9F9",
      "U+AA50", "U+AA51", "U+AA52", "U+AA53", "U+AA54", "U+AA55", "U+AA56", "U+AA57", "U+AA58", "U+AA59",
      "U+ABF0", "U+ABF1", "U+ABF2", "U+ABF3", "U+ABF4", "U+ABF5", "U+ABF6", "U+ABF7", "U+ABF8", "U+ABF9",
      "U+FF10", "U+FF11", "U+FF12", "U+FF13", "U+FF14", "U+FF15", "U+FF16", "U+FF17", "U+FF18", "U+FF19",
      "U+104A0", "U+104A1", "U+104A2", "U+104A3", "U+104A4", "U+104A5", "U+104A6", "U+104A7", "U+104A8", "U+104A9",
      "U+10D30", "U+10D31", "U+10D32", "U+10D33", "U+10D34", "U+10D35", "U+10D36", "U+10D37", "U+10D38", "U+10D39",
      "U+11066", "U+11067", "U+11068", "U+11069", "U+1106A", "U+1106B", "U+1106C", "U+1106D", "U+1106E", "U+1106F",
      "U+110F0", "U+110F1", "U+110F2", "U+110F3", "U+110F4", "U+110F5", "U+110F6", "U+110F7", "U+110F8", "U+110F9",
      "U+11136", "U+11137", "U+11138", "U+11139", "U+1113A", "U+1113B", "U+1113C", "U+1113D", "U+1113E", "U+1113F",
      "U+111D0", "U+111D1", "U+111D2", "U+111D3", "U+111D4", "U+111D5", "U+111D6", "U+111D7", "U+111D8", "U+111D9",
      "U+112F0", "U+112F1", "U+112F2", "U+112F3", "U+112F4", "U+112F5", "U+112F6", "U+112F7", "U+112F8", "U+112F9",
      "U+11450", "U+11451", "U+11452", "U+11453", "U+11454", "U+11455", "U+11456", "U+11457", "U+11458", "U+11459",
      "U+114D0", "U+114D1", "U+114D2", "U+114D3", "U+114D4", "U+114D5", "U+114D6", "U+114D7", "U+114D8", "U+114D9",
      "U+11650", "U+11651", "U+11652", "U+11653", "U+11654", "U+11655", "U+11656", "U+11657", "U+11658", "U+11659",
      "U+116C0", "U+116C1", "U+116C2", "U+116C3", "U+116C4", "U+116C5", "U+116C6", "U+116C7", "U+116C8", "U+116C9",
      "U+11730", "U+11731", "U+11732", "U+11733", "U+11734", "U+11735", "U+11736", "U+11737", "U+11738", "U+11739",
      "U+118E0", "U+118E1", "U+118E2", "U+118E3", "U+118E4", "U+118E5", "U+118E6", "U+118E7", "U+118E8", "U+118E9",
      "U+11950", "U+11951", "U+11952", "U+11953", "U+11954", "U+11955", "U+11956", "U+11957", "U+11958", "U+11959",
      "U+11C50", "U+11C51", "U+11C52", "U+11C53", "U+11C54", "U+11C55", "U+11C56", "U+11C57", "U+11C58", "U+11C59",
      "U+11D50", "U+11D51", "U+11D52", "U+11D53", "U+11D54", "U+11D55", "U+11D56", "U+11D57", "U+11D58", "U+11D59",
      "U+11DA0", "U+11DA1", "U+11DA2", "U+11DA3", "U+11DA4", "U+11DA5", "U+11DA6", "U+11DA7", "U+11DA8", "U+11DA9",
      "U+16A60", "U+16A61", "U+16A62", "U+16A63", "U+16A64", "U+16A65", "U+16A66", "U+16A67", "U+16A68", "U+16A69",
      "U+16AC0", "U+16AC1", "U+16AC2", "U+16AC3", "U+16AC4", "U+16AC5", "U+16AC6", "U+16AC7", "U+16AC8", "U+16AC9",
      "U+16B50", "U+16B51", "U+16B52", "U+16B53", "U+16B54", "U+16B55", "U+16B56", "U+16B57", "U+16B58", "U+16B59",
      "U+1D7CE", "U+1D7CF", "U+1D7D0", "U+1D7D1", "U+1D7D2", "U+1D7D3", "U+1D7D4", "U+1D7D5", "U+1D7D6", "U+1D7D7",
      "U+1D7D8", "U+1D7D9", "U+1D7DA", "U+1D7DB", "U+1D7DC", "U+1D7DD", "U+1D7DE", "U+1D7DF", "U+1D7E0", "U+1D7E1",
      "U+1D7E2", "U+1D7E3", "U+1D7E4", "U+1D7E5", "U+1D7E6", "U+1D7E7", "U+1D7E8", "U+1D7E9", "U+1D7EA", "U+1D7EB",
      "U+1D7EC", "U+1D7ED", "U+1D7EE", "U+1D7EF", "U+1D7F0", "U+1D7F1", "U+1D7F2", "U+1D7F3", "U+1D7F4", "U+1D7F5",
      "U+1D7F6", "U+1D7F7", "U+1D7F8", "U+1D7F9", "U+1D7FA", "U+1D7FB", "U+1D7FC", "U+1D7FD", "U+1D7FE", "U+1D7FF",
      "U+1E140", "U+1E141", "U+1E142", "U+1E143", "U+1E144", "U+1E145", "U+1E146", "U+1E147", "U+1E148", "U+1E149",
      "U+1E2F0", "U+1E2F1", "U+1E2F2", "U+1E2F3", "U+1E2F4", "U+1E2F5", "U+1E2F6", "U+1E2F7", "U+1E2F8", "U+1E2F9",
      "U+1E950", "U+1E951", "U+1E952", "U+1E953", "U+1E954", "U+1E955", "U+1E956", "U+1E957", "U+1E958", "U+1E959",
      "U+1FBF0", "U+1FBF1", "U+1FBF2", "U+1FBF3", "U+1FBF4", "U+1FBF5", "U+1FBF6", "U+1FBF7", "U+1FBF8", "U+1FBF9">>
Digit == {DigitChars[n] : n \in 1..Len(DigitChars)}

\* s[i:] starts with lit
MatchAt(s, i, lit) ==
    /\ i >= 1
    /\ i + Len(lit) - 1 <= Len(s)
    /\ \A k \in 1..Len(lit) : s[i + k - 1] = lit[k]

\* a variant of Strip that leaves the text as it is, which C21 excludes
NoStrip(s) == s

\* str.strip()
Strip(s) ==
    LET keep == {i \in 1..Len(s) : s[i] \notin Whitespace}
    IN  IF keep = {} THEN <<>> ELSE SubSeq(s, Min(keep), Max(keep))

\* a variant that keeps the query string
KeepQuery(s) == s

\* str.split("?")[0]
BeforeQuery(s) ==
    LET q == {i \in 1..Len(s) : s[i] = "?"}
    IN  IF q = {} THEN s ELSE SubSeq(s, 1, Min(q) - 1)

\* str.replace(",", ".")
ReplaceComma(s) == [i \in 1..Len(s) |-> IF s[i] = "," THEN "." ELSE s[i]]

NoMatch == [matched |-> FALSE]
SPAN_OPEN == <<"<", "s", "p", "a", "n">>
SPAN_CLOSE == <<"<", "/", "s", "p", "a", "n", ">">>

\* re.search(r'<span[^>]*>(.*?)</span>', s), with re.DOTALL when dotall:
\* the leftmost "<span" that is followed by a ">" and then, lazily, by the
\* first "</span>" (with no newline in between unless dotall).
SpanSearch(s, dotall) ==
    LET gt(i) == {j \in (i + Len(SPAN_OPEN))..Len(s) : s[j] = ">"}
        close(i) == {k \in (Min(gt(i)) + 1)..Len(s) : MatchAt(s, k, SPAN_CLOSE)}
        matches(i) ==
            /\ MatchAt(s, i, SPAN_OPEN)
            /\ gt(i) # {}
            /\ close(i) # {}
            /\ dotall \/ \A x \in (Min(gt(i)) + 1)..(Min(close(i)) - 1) : s[x] # "\n"
        starts == {i \in 1..Len(s) : matches(i)}
    IN  IF starts = {} THEN NoMatch
        ELSE LET i == Min(starts)
             IN  [matched |-> TRUE,
                  group1 |-> SubSeq(s, Min(gt(i)) + 1, Min(close(i)) - 1)]

\* the account-title marker of re.search(r"L/s #(\d+)", title)
LS_MARK == <<"L", "/", "s", " ", "#">>

\* the longest run of digits of s that starts at i
DigitRun(s, i) ==
    LET stop == {j \in i..Len(s) : s[j] \notin Digit}
    IN  SubSeq(s, i, IF stop = {} THEN Len(s) ELSE Min(stop) - 1)

\* re.search(r"L/s #(\d+)", s)
LsSearch(s) ==
    LET starts == {i \in 1..Len(s) :
                     /\ MatchAt(s, i, LS_MARK)
                     /\ i + Len(LS_MARK) <= Len(s)
                     /\ s[i + Len(LS_MARK)] \in Digit}
    IN  IF starts = {} THEN NoMatch
        ELSE [matched |-> TRUE,
              group1 |-> DigitRun(s, Min(starts) + Len(LS_MARK))]


(***************************************************************************)
(* Numbers and dates read from text.                                       *)
(***************************************************************************)
\* the digit a decimal digit of any script writes
DigitVal(c) == ((CHOOSE n \in 1..Len(DigitChars) : DigitChars[n] = c) - 1) % 10
IsDigits(s) == \A i \in 1..Len(s) : s[i] \in Digit

\* the digits from the first one on that is no zero
DropZeros(ds) ==
    LET nonzero == {i \in 1..Len(ds) : DigitVal(ds[i]) # 0}
    IN  IF nonzero = {} THEN <<>> ELSE SubSeq(ds, Min(nonzero), Len(ds))

RECURSIVE Decimal(_)
Decimal(ds) ==
    IF ds = <<>> THEN 0
    ELSE 10 * Decimal(SubSeq(ds, 1, Len(ds) - 1)) + DigitVal(ds[Len(ds)])
\* the number that digits write, zeros in front or not
ToNat(ds) == Decimal(DropZeros(ds))

\* a float is [m, e] for m / 10^e, with e as small as possible, so that
\* equal numbers are equal values
RECURSIVE Normalize(_, _)
Normalize(m, e) ==
    IF e > 0 /\ m % 10 = 0 THEN Normalize(m \div 10, e - 1) ELSE [m |-> m, e |-> e]

\* the floats that are no numbers
INF == [float |-> "inf"]
NEG_INF == [float |-> "-inf"]
NAN == [float |-> "nan"]
IsFinite(f) == "m" \in DOMAIN f

\* the decimal digits of 2^1024 - 2^970: a decimal text of this value or more
\* is read as infinity
OVERFLOW_FROM ==
    <<1, 7, 9, 7, 6, 9, 3, 1, 3, 4, 8, 6, 2, 3, 1, 5, 8, 0, 7, 9, 3, 7, 2, 8,
      9, 7, 1, 4, 0, 5, 3, 0, 3, 4, 1, 5, 0, 7, 9, 9, 3, 4, 1, 3, 2, 7, 1, 0,
      0, 3, 7, 8, 2, 6, 9, 3, 6, 1, 7, 3, 7, 7, 8, 9, 8, 0, 4, 4, 4, 9, 6, 8,
      2, 9, 2, 7, 6, 4, 7, 5, 0, 9, 4, 6, 6, 4, 9, 0, 1, 7, 9, 7, 7, 5, 8, 7,
      2, 0, 7, 0, 9, 6, 3, 3, 0, 2, 8, 6, 4, 1, 6, 6, 9, 2, 8, 8, 7, 9, 1, 0,
      9, 4, 6, 5, 5, 5, 5, 4, 7, 8, 5, 1, 9, 4, 0, 4, 0, 2, 6, 3, 0, 6, 5, 7,
      4, 8, 8, 6, 7, 1, 5, 0, 5, 8, 2, 0, 6, 8, 1, 9, 0, 8, 9, 0, 2, 0, 0, 0,
      7, 0, 8, 3, 8, 3, 6, 7, 6, 2, 7, 3, 8, 5, 4, 8, 4, 5, 8, 1, 7, 7, 1, 1,
      5, 3, 1, 7, 6, 4, 4, 7, 5, 7, 3, 0, 2, 7, 0, 0, 6, 9, 8, 5, 5, 5, 7, 1,
      3, 6, 6, 9, 5, 9, 6, 2, 2, 8, 4, 2, 9, 1, 4, 8, 1, 9, 8, 6, 0, 8, 3, 4,
      9, 3, 6, 4, 7, 5, 2, 9, 2, 7, 1, 9, 0, 7, 4, 1, 6, 8, 4, 4, 4, 3, 6, 5,
      5, 1, 0, 7, 0, 4, 3, 4, 2, 7, 1, 1, 5, 5, 9, 6, 9, 9, 5, 0, 8, 0, 9, 3,
      0, 4, 2, 8, 8, 0, 1, 7, 7, 9, 0, 4, 1, 7, 4, 4, 9, 7, 7, 9, 2>>

\* the decimal digits of 2^-1075, which is 0.2470... / 10^323: a decimal text
\* of this value or less is read as zero
UNDERFLOW_TO ==
    <<2, 4, 7, 0, 3, 2, 8, 2, 2, 9, 2, 0, 6, 2, 3, 2, 7, 2, 0, 8, 8, 2, 8, 4,
      3, 9, 6, 4, 3, 4, 1, 1, 0, 6, 8, 6, 1, 8, 2, 5, 2, 9, 9, 0, 1, 3, 0, 7,
      1, 6, 2, 3, 8, 2, 2, 1, 2, 7, 9, 2, 8, 4, 1, 2, 5, 0, 3, 3, 7, 7, 5, 3,
      6, 3, 5, 1, 0, 4, 3, 7, 5, 9, 3, 2, 6, 4, 9, 9, 1, 8, 1, 8, 0, 8, 1, 7,
      9, 9, 6, 1, 8, 9, 8, 9, 8, 2, 8, 2, 3, 4, 7, 7, 2, 2, 8, 5, 8, 8, 6, 5,
      4, 6, 3, 3, 2, 8, 3, 5, 5, 1, 7, 7, 9, 6, 9, 8, 9, 8, 1, 9, 9, 3, 8, 7,
      3, 9, 8, 0, 0, 5, 3, 9, 0, 9, 3, 9, 0, 6, 3, 1, 5, 0, 3, 5, 6, 5, 9, 5,
      1, 5, 5, 7, 0, 2, 2, 6, 3, 9, 2, 2, 9, 0, 8, 5, 8, 3, 9, 2, 4, 4, 9, 1,
      0, 5, 1, 8, 4, 4, 3, 5, 9, 3, 1, 8, 0, 2, 8, 4, 9, 9, 3, 6, 5, 3, 6, 1,
      5, 2, 5, 0, 0, 3, 1, 9, 3, 7, 0, 4, 5, 7, 6, 7, 8, 2, 4, 9, 2, 1, 9, 3,
      6, 5, 6, 2, 3, 6, 6, 9, 8, 6, 3, 6, 5, 8, 4, 8, 0, 7, 5, 7, 0, 0, 1, 5,
      8, 5, 7, 6, 9, 2, 6, 9, 9, 0, 3, 7, 0, 6, 3, 1, 1, 9, 2, 8, 2, 7, 9, 5,
      5, 8, 5, 5, 1, 3, 3, 2, 9, 2, 7, 8, 3, 4, 3, 3, 8, 4, 0, 9, 3, 5, 1, 9,
      7, 8, 0, 1, 5, 5, 3, 1, 2, 4, 6, 5, 9, 7, 2, 6, 3, 5, 7, 9, 5, 7, 4, 6,
      2, 2, 7, 6, 6, 4, 6, 5, 2, 7, 2, 8, 2, 7, 2, 2, 0, 0, 5, 6, 3, 7, 4, 0,
      0, 6, 4, 8, 5, 4, 9, 9, 9, 7, 7, 0, 9, 6, 5, 9, 9, 4, 7, 0, 4, 5, 4, 0,
      2, 0, 8, 2, 8, 1, 6, 6, 2, 2, 6, 2, 3, 7, 8, 5, 7, 3, 9, 3, 4, 5, 0, 7,
      3, 6, 3, 3, 9, 0, 0, 7, 9, 6, 7, 7, 6, 1, 9, 3, 0, 5, 7, 7, 5, 0, 6, 7,
      4, 0, 1, 7, 6, 3, 2, 4, 6, 7, 3, 6, 0, 0, 9, 6, 8, 9, 5, 1, 3, 4, 0, 5,
      3, 5, 5, 3, 7, 4, 5, 8, 5, 1, 6, 6, 6, 1, 1, 3, 4, 2, 2, 3, 7, 6, 6, 6,
      7, 8, 6, 0, 4, 1, 6, 2, 1, 5, 9, 6, 8, 0, 4, 6, 1, 9, 1, 4, 4, 6, 7, 2,
      9, 1, 8, 4, 0, 3, 0, 0, 5, 3, 0, 0, 5, 7, 5, 3, 0, 8, 4, 9, 0, 4, 8, 7,
      6, 5, 3, 9, 1, 7, 1, 1, 3, 8, 6, 5, 9, 1, 6, 4, 6, 2, 3, 9, 5, 2, 4, 9,
      1, 2, 6, 2, 3, 6, 5, 3, 8, 8, 1, 8, 7, 9, 6, 3, 6, 2, 3, 9, 3, 7, 3, 2,
      8, 0, 4, 2, 3, 8, 9, 1, 0, 1, 8, 6, 7, 2, 3, 4, 8, 4, 9, 7, 6, 6, 8, 2,
      3, 5, 0, 8, 9, 8, 6, 3, 3, 8, 8, 5, 8, 7, 9, 2, 5, 6, 2, 8, 3, 0, 2, 7,
      5, 5, 9, 9, 5, 6, 5, 7, 5, 2, 4, 4, 5, 5, 5, 0, 7, 2, 5, 5, 1, 8, 9, 3,
      1, 3, 6, 9, 0, 8, 3, 6, 2, 5, 4, 7, 7, 9, 1, 8, 6, 9, 4, 8, 6, 6, 7, 9,
      9, 4, 9, 6, 8, 3, 2, 4, 0, 4, 9, 7, 0, 5, 8, 2, 1, 0, 2, 8, 5, 1, 3, 1,
      8, 5, 4, 5, 1, 3, 9, 6, 2, 1, 3, 8, 3, 7, 7, 2, 2, 8, 2, 6, 1, 4, 5, 4,
      3, 7, 6, 9, 3, 4, 1, 2, 5, 3, 2, 0, 9, 8, 5, 9, 1, 3, 2, 7, 6, 6, 7, 2,
      3, 6, 3, 2, 8, 1, 2, 5>>

\* str.lower() of the letters of "infinity" and "nan"
Lower(c) ==
    CASE c = "I" -> "i" [] c = "N" -> "n" [] c = "F" -> "f" [] c = "T" -> "t"
      [] c = "Y" -> "y" [] c = "A" -> "a" [] OTHER -> c

\* digits with single underscores between them, or nothing
IsGrouped(x) ==
    \A i \in 1..Len(x) :
        \/ x[i] \in Digit
        \/ /\ x[i] = "_"
           /\ i > 1 /\ i < Len(x)
           /\ x[i - 1] \in Digit /\ x[i + 1] \in Digit
DigitsOf(x) == SelectSeq(x, LAMBDA c : c \in Digit)

RECURSIVE Pow10(_)
Pow10(n) == IF n = 0 THEN 1 ELSE 10 * Pow10(n - 1)

\* the number 0.sig * 10^E is at least 2^1024 - 2^970
Overflows(sig, E) ==
    LET n == Len(OVERFLOW_FROM)
        len == IF Len(sig) > n THEN Len(sig) ELSE n
        a(i) == IF i <= Len(sig) THEN DigitVal(sig[i]) ELSE 0
        b(i) == IF i <= n THEN OVERFLOW_FROM[i] ELSE 0
        diff == {i \in 1..len : a(i) # b(i)}
    IN  \/ E > n
        \/ E = n /\ (diff = {} \/ a(Min(diff)) > b(Min(diff)))

\* the number 0.sig * 10^E is at most 2^-1075, half of the least float above
\* zero, which rounds to the even zero
Underflows(sig, E) ==
    LET n == Len(UNDERFLOW_TO)
        len == IF Len(sig) > n THEN Len(sig) ELSE n
        a(i) == IF i <= Len(sig) THEN DigitVal(sig[i]) ELSE 0
        b(i) == IF i <= n THEN UNDERFLOW_TO[i] ELSE 0
        diff == {i \in 1..len : a(i) # b(i)}
    IN  \/ E < 0 - 323
        \/ E = 0 - 323 /\ (diff = {} \/ a(Min(diff)) < b(Min(diff)))

\* the characters that are not printable (str.isprintable), the blank apart,
\* each with the escape repr writes for it: the control characters, the
\* format characters and the separators of Unicode 14.  (A surrogate, a
\* private-use or an unassigned code point is no character of the texts of
\* the model.)
Escapes ==
    <<<<"U+0000", "\\x00">>, <<"U+0001", "\\x01">>, <<"U+0002", "\\x02">>, <<"U+0003", "\\x03">>,
      <<"U+0004", "\\x04">>, <<"U+0005", "\\x05">>, <<"U+0006", "\\x06">>, <<"U+0007", "\\x07">>,
      <<"U+0008", "\\x08">>, <<"U+000B", "\\x0b">>, <<"\f", "\\x0c">>, <<"U+000E", "\\x0e">>,
      <<"U+000F", "\\x0f">>, <<"U+0010", "\\x10">>, <<"U+0011", "\\x11">>, <<"U+0012", "\\x12">>,
      <<"U+0013", "\\x13">>, <<"U+0014", "\\x14">>, <<"U+0015", "\\x15">>, <<"U+0016", "\\x16">>,
      <<"U+0017", "\\x17">>, <<"U+0018", "\\x18">>, <<"U+0019", "\\x19">>, <<"U+001A", "\\x1a">>,
      <<"U+001B", "\\x1b">>, <<"U+001C", "\\x1c">>, <<"U+001D", "\\x1d">>, <<"U+001E", "\\x1e">>,
      <<"U+001F", "\\x1f">>, <<"U+007F", "\\x7f">>, <<"U+0080", "\\x80">>, <<"U+0081", "\\x81">>,
      <<"U+0082", "\\x82">>, <<"U+0083", "\\x83">>, <<"U+0084", "\\x84">>, <<"U+0085", "\\x85">>,
      <<"U+0086", "\\x86">>, <<"U+0087", "\\x87">>, <<"U+0088", "\\x88">>, <<"U+0089", "\\x89">>,
      <<"U+008A", "\\x8a">>, <<"U+008B", "\\x8b">>, <<"U+008C", "\\x8c">>, <<"U+008D", "\\x8d">>,
      <<"U+008E", "\\x8e">>, <<"U+008F", "\\x8f">>, <<"U+0090", "\\x90">>, <<"U+0091", "\\x91">>,
      <<"U+0092", "\\x92">>, <<"U+0093", "\\x93">>, <<"U+0094", "\\x94">>, <<"U+0095", "\\x95">>,
      <<"U+0096", "\\x96">>, <<"U+0097", "\\x97">>, <<"U+0098", "\\x98">>, <<"U+0099", "\\x99">>,
      <<"U+009A", "\\x9a">>, <<"U+009B", "\\x9b">>, <<"U+009C", "\\x9c">>, <<"U+009D", "\\x9d">>,
      <<"U+009E", "\\x9e">>, <<"U+009F", "\\x9f">>, <<"U+00A0", "\\xa0">>, <<"U+00AD", "\\xad">>,
      <<"U+0600", "\\u0600">>, <<"U+0601", "\\u0601">>, <<"U+0602", "\\u0602">>, <<"U+0603", "\\u0603">>,
      <<"U+0604", "\\u0604">>, <<"U+0605", "\\u0605">>, <<"U+061C", "\\u061c">>, <<"U+06DD", "\\u06dd">>,
      <<"U+070F", "\\u070f">>, <<"U+0890", "\\u0890">>, <<"U+0891", "\\u0891">>, <<"U+08E2", "\\u08e2">>,
      <<"U+1680", "\\u1680">>, <<"U+180E", "\\u180e">>, <<"U+2000", "\\u2000">>, <<"U+2001", "\\u2001">>,
      <<"U+2002", "\\u2002">>, <<"U+2003", "\\u2003">>, <<"U+2004", "\\u2004">>, <<"U+2005", "\\u2005">>,
      <<"U+2006", "\\u2006">>, <<"U+2007", "\\u2007">>, <<"U+2008", "\\u2008">>, <<"U+2009", "\\u2009">>,
      <<"U+200A", "\\u200a">>, <<"U+200B", "\\u200b">>, <<"U+200C", "\\u200c">>, <<"U+200D", "\\u200d">>,
      <<"U+200E", "\\u200e">>, <<"U+200F", "\\u200f">>, <<"U+2028", "\\u2028">>, <<"U+2029", "\\u2029">>,
      <<"U+202A", "\\u202a">>, <<"U+202B", "\\u202b">>, <<"U+202C", "\\u202c">>, <<"U+202D", "\\u202d">>,
      <<"U+202E", "\\u202e">>, <<"U+202F", "\\u202f">>, <<"U+205F", "\\u205f">>, <<"U+2060", "\\u2060">>,
      <<"U+2061", "\\u2061">>, <<"U+2062", "\\u2062">>, <<"U+2063", "\\u2063">>, <<"U+2064", "\\u2064">>,
      <<"U+2066", "\\u2066">>, <<"U+2067", "\\u2067">>, <<"U+2068", "\\u2068">>, <<"U+2069", "\\u2069">>,
      <<"U+206A", "\\u206a">>, <<"U+206B", "\\u206b">>, <<"U+206C", "\\u206c">>, <<"U+206D", "\\u206d">>,
      <<"U+206E", "\\u206e">>, <<"U+206F", "\\u206f">>, <<"U+3000", "\\u3000">>, <<"U+FEFF", "\\ufeff">>,
      <<"U+FFF9", "\\ufff9">>, <<"U+FFFA", "\\ufffa">>, <<"U+FFFB", "\\ufffb">>, <<"U+110BD", "\\U000110bd">>,
      <<"U+110CD", "\\U000110cd">>, <<"U+13430", "\\U00013430">>, <<"U+13431", "\\U00013431">>, <<"U+13432", "\\U00013432">>,
      <<"U+13433", "\\U00013433">>, <<"U+13434", "\\U00013434">>, <<"U+13435", "\\U00013435">>, <<"U+13436", "\\U00013436">>,
      <<"U+13437", "\\U00013437">>, <<"U+13438", "\\U00013438">>, <<"U+1BCA0", "\\U0001bca0">>, <<"U+1BCA1", "\\U0001bca1">>,
      <<"U+1BCA2", "\\U0001bca2">>, <<"U+1BCA3", "\\U0001bca3">>, <<"U+1D173", "\\U0001d173">>, <<"U+1D174", "\\U0001d174">>,
      <<"U+1D175", "\\U0001d175">>, <<"U+1D176", "\\U0001d176">>, <<"U+1D177", "\\U0001d177">>, <<"U+1D178", "\\U0001d178">>,
      <<"U+1D179", "\\U0001d179">>, <<"U+1D17A", "\\U0001d17a">>, <<"U+E0001", "\\U000e0001">>, <<"U+E0020", "\\U000e0020">>,
      <<"U+E0021", "\\U000e0021">>, <<"U+E0022", "\\U000e0022">>, <<"U+E0023", "\\U000e0023">>, <<"U+E0024", "\\U000e0024">>,
      <<"U+E0025", "\\U000e0025">>, <<"U+E0026", "\\U000e0026">>, <<"U+E0027", "\\U000e0027">>, <<"U+E0028", "\\U000e0028">>,
      <<"U+E0029", "\\U000e0029">>, <<"U+E002A", "\\U000e002a">>, <<"U+E002B", "\\U000e002b">>, <<"U+E002C", "\\U000e002c">>,
      <<"U+E002D", "\\U000e002d">>, <<"U+E002E", "\\U000e002e">>, <<"U+E002F", "\\U000e002f">>, <<"U+E0030", "\\U000e0030">>,
      <<"U+E0031", "\\U000e0031">>, <<"U+E0032", "\\U000e0032">>, <<"U+E0033", "\\U000e0033">>, <<"U+E0034", "\\U000e0034">>,
      <<"U+E0035", "\\U000e0035">>, <<"U+E0036", "\\U000e0036">>, <<"U+E0037", "\\U000e0037">>, <<"U+E0038", "\\U000e0038">>,
      <<"U+E0039", "\\U000e0039">>, <<"U+E003A", "\\U000e003a">>, <<"U+E003B", "\\U000e003b">>, <<"U+E003C", "\\U000e003c">>,
      <<"U+E003D", "\\U000e003d">>, <<"U+E003E", "\\U000e003e">>, <<"U+E003F", "\\U000e003f">>, <<"U+E0040", "\\U000e0040">>,
      <<"U+E0041", "\\U000e0041">>, <<"U+E0042", "\\U000e0042">>, <<"U+E0043", "\\U000e0043">>, <<"U+E0044", "\\U000e0044">>,
      <<"U+E0045", "\\U000e0045">>, <<"U+E0046", "\\U000e0046">>, <<"U+E0047", "\\U000e0047">>, <<"U+E0048", "\\U000e0048">>,
      <<"U+E0049", "\\U000e0049">>, <<"U+E004A", "\\U000e004a">>, <<"U+E004B", "\\U000e004b">>, <<"U+E004C", "\\U000e004c">>,
      <<"U+E004D", "\\U000e004d">>, <<"U+E004E", "\\U000e004e">>, <<"U+E004F", "\\U000e004f">>, <<"U+E0050", "\\U000e0050">>,
      <<"U+E0051", "\\U000e0051">>, <<"U+E0052", "\\U000e0052">>, <<"U+E0053", "\\U000e0053">>, <<"U+E0054", "\\U000e0054">>,
      <<"U+E0055", "\\U000e0055">>, <<"U+E0056", "\\U000e0056">>, <<"U+E0057", "\\U000e0057">>, <<"U+E0058", "\\U000e0058">>,
      <<"U+E0059", "\\U000e0059">>, <<"U+E005A", "\\U000e005a">>, <<"U+E005B", "\\U000e005b">>, <<"U+E005C", "\\U000e005c">>,
      <<"U+E005D", "\\U000e005d">>, <<"U+E005E", "\\U000e005e">>, <<"U+E005F", "\\U000e005f">>, <<"U+E0060", "\\U000e0060">>,
      <<"U+E0061", "\\U000e0061">>, <<"U+E0062", "\\U000e0062">>, <<"U+E0063", "\\U000e0063">>, <<"U+E0064", "\\U000e0064">>,
      <<"U+E0065", "\\U000e0065">>, <<"U+E0066", "\\U000e0066">>, <<"U+E0067", "\\U000e0067">>, <<"U+E0068", "\\U000e0068">>,
      <<"U+E0069", "\\U000e0069">>, <<"U+E006A", "\\U000e006a">>, <<"U+E006B", "\\U000e006b">>, <<"U+E006C", "\\U000e006c">>,
      <<"U+E006D", "\\U000e006d">>, <<"U+E006E", "\\U000e006e">>, <<"U+E006F", "\\U000e006f">>, <<"U+E0070", "\\U000e0070">>,
      <<"U+E0071", "\\U000e0071">>, <<"U+E0072", "\\U000e0072">>, <<"U+E0073", "\\U000e0073">>, <<"U+E0074", "\\U000e0074">>,
      <<"U+E0075", "\\U000e0075">>, <<"U+E0076", "\\U000e0076">>, <<"U+E0077", "\\U000e0077">>, <<"U+E0078", "\\U000e0078">>,
      <<"U+E0079", "\\U000e0079">>, <<"U+E007A", "\\U000e007a">>, <<"U+E007B", "\\U000e007b">>, <<"U+E007C", "\\U000e007c">>,
      <<"U+E007D", "\\U000e007d">>, <<"U+E007E", "\\U000e007e">>, <<"U+E007F", "\\U000e007f">>>>

\* repr(c) of a character within quotes of the kind quote: the quote and the
\* backslash are escaped, and so is every character that is not printable
ReprChar(c, quote) ==
    CASE c = quote -> <<"\\", c>>
      [] c = "\\" -> <<"\\", "\\">>
      [] c = "\t" -> <<"\\", "t">>
      [] c = "\n" -> <<"\\", "n">>
      [] c = "\r" -> <<"\\", "r">>
      [] c \in Keys(Escapes) -> <<Value(Escapes, c)>>
      [] OTHER -> <<c>>

\* the characters of s as repr writes them, one half of s after the other
RECURSIVE ReprChars(_, _)
ReprChars(s, quote) ==
    IF s = <<>> THEN <<>>
    ELSE IF Len(s) = 1 THEN ReprChar(s[1], quote)
    ELSE ReprChars(SubSeq(s, 1, Len(s) \div 2), quote)
         \o ReprChars(SubSeq(s, Len(s) \div 2 + 1, Len(s)), quote)

\* repr(s) of a str: within double quotes when the text holds a single quote
\* and no double quote, within single quotes otherwise
Repr(s) ==
    LET has(c) == \E i \in 1..Len(s) : s[i] = c
        quote == IF has("'") /\ ~has("\"") THEN "\"" ELSE "'"
    IN  <<quote>> \o ReprChars(s, quote) \o <<quote>>

\* float(s): white space at the two ends (the separators U+001C..U+001F
\* are none here), a sign, then "inf", "infinity" or "nan" in any case, or
\* digits with an optional point and an optional exponent, single
\* underscores allowed between digits; any other text is a ValueError.
\* The value is the decimal the text writes, infinity from 2^1024 - 2^970
\* on and zero up to 2^-1075: binary rounding in between is not modelled,
\* and the texts are those whose digits make a number below 2^31.  A
\* negative zero is the zero, which it equals.  The message quotes the text
\* as repr does.
ParseFloat(text) ==
    With(text, LAMBDA s :
    With({i \in 1..Len(s) : s[i] \notin Whitespace \ Separators}, LAMBDA keep :
    With(IF keep = {} THEN <<>> ELSE SubSeq(s, Min(keep), Max(keep)), LAMBDA t :
    With(IF t # <<>> /\ t[1] \in {"+", "-"} THEN Tail(t) ELSE t, LAMBDA u :
    With({i \in 1..Len(u) : u[i] \in {"e", "E"}}, LAMBDA es :
    With(IF es = {} THEN u ELSE SubSeq(u, 1, Min(es) - 1), LAMBDA mant :
    With(IF es = {} THEN <<>> ELSE SubSeq(u, Min(es) + 1, Len(u)), LAMBDA ex :
    With(IF ex # <<>> /\ ex[1] \in {"+", "-"} THEN Tail(ex) ELSE ex, LAMBDA exDigits :
    With({i \in 1..Len(mant) : mant[i] = "."}, LAMBDA dots :
    With(IF dots = {} THEN mant ELSE SubSeq(mant, 1, Min(dots) - 1), LAMBDA ip :
    With(IF dots = {} THEN <<>> ELSE SubSeq(mant, Min(dots) + 1, Len(mant)), LAMBDA fp :
    With(DigitsOf(ip) \o DigitsOf(fp), LAMBDA digits :
    With(DropZeros(digits), LAMBDA sig :
    LET neg == t # <<>> /\ t[1] = "-"
        word == [i \in 1..Len(u) |-> Lower(u[i])]
        wellFormed ==
            /\ IsGrouped(ip) /\ IsGrouped(fp) /\ ip \o fp # <<>>
            /\ es # {} => (exDigits # <<>> /\ IsGrouped(exDigits))
        exponent == IF ex # <<>> /\ ex[1] = "-" THEN 0 - ToNat(DigitsOf(exDigits))
                    ELSE ToNat(DigitsOf(exDigits))
        \* the value is digits / 10^scale
        scale == Len(DigitsOf(fp)) - exponent
        n == IF sig = <<>> THEN [m |-> 0, e |-> 0]
             ELSE IF scale >= 0 THEN Normalize(ToNat(digits), scale)
             ELSE [m |-> ToNat(digits) * Pow10(0 - scale), e |-> 0]
    IN  IF word \in {<<"i", "n", "f">>, <<"i", "n", "f", "i", "n", "i", "t", "y">>}
        THEN Ok(IF neg THEN NEG_INF ELSE INF)
        ELSE IF word = <<"n", "a", "n">> THEN Ok(NAN)
        ELSE IF ~wellFormed
        THEN Raise("ValueError", <<"could not convert string to float: ">> \o Repr(s))
        ELSE IF sig # <<>> /\ Overflows(sig, Len(sig) - scale)
        THEN Ok(IF neg THEN NEG_INF ELSE INF)
        ELSE IF sig # <<>> /\ Underflows(sig, Len(sig) - scale)
        THEN Ok([m |-> 0, e |-> 0])
        ELSE With(n, LAMBDA v : Ok(IF neg THEN [m |-> 0 - v.m, e |-> v.e] ELSE v)))))))))))))))

\* the bits of the binary fraction r / den after n more of them: the
\* remainder that is left and the last bit written
RECURSIVE FracBits(_, _, _, _)
FracBits(r, den, n, lsb) ==
    IF n = 0 THEN [r |-> r, lsb |-> lsb]
    ELSE FracBits((2 * r) % den, den, n - 1, (2 * r) \div den)

RECURSIVE BitLength(_)
BitLength(n) == IF n = 0 THEN 0 ELSE 1 + BitLength(n \div 2)

\* the remainder of r / den at its first binary digit 1
RECURSIVE SkipZeroBits(_, _)
SkipZeroBits(r, den) ==
    IF 2 * r >= den THEN (2 * r) % den ELSE SkipZeroBits(2 * r, den)

MANT_DIG == 53

\* where the float nearest to num / den (both positive) lies: "below" the
\* quotient, "above" it or "exact"; the float keeps 53 bits and rounds the
\* rest to the nearest, a half to the even bit
NearestFloat(num, den) ==
    LET int == num \div den
        rem == num % den
        cut == IF int > 0
               THEN FracBits(rem, den, MANT_DIG - BitLength(int), int % 2)
               ELSE FracBits(SkipZeroBits(rem, den), den, MANT_DIG - 1, 1)
    IN  IF cut.r = 0 THEN "exact"
        ELSE IF 2 * cut.r < den THEN "below"
        ELSE IF 2 * cut.r > den THEN "above"
        ELSE IF cut.lsb = 0 THEN "below" ELSE "above"

\* round(f, 4): the nearest multiple of 1/10^4 to the float, the even one
\* when the float itself lies half way; inf and nan are returned as they
\* are, and a float whose digits start ten decimals or more after the
\* fourth, as the numbers below 2^31 with that many decimals do, rounds to
\* zero
Round4(f) ==
    IF ~IsFinite(f) \/ f.e <= 4 THEN f
    ELSE IF f.e - 4 >= 10 THEN [m |-> 0, e |-> 0]
    ELSE LET abs == IF f.m < 0 THEN 0 - f.m ELSE f.m
             unit == Pow10(f.e - 4)
             q == abs \div unit
             r == abs % unit
             side == IF 2 * r # unit THEN "exact" ELSE NearestFloat(2 * q + 1, 2 * Pow10(4))
             up == \/ 2 * r > unit
                   \/ 2 * r = unit /\ (side = "above" \/ (side = "exact" /\ q % 2 = 1))
             n == Normalize(IF up THEN q + 1 ELSE q, 4)
         IN  IF f.m < 0 THEN [m |-> 0 - n.m, e |-> n.e] ELSE n

IsLeap(y) == (y % 4 = 0 /\ y % 100 # 0) \/ y % 400 = 0
DaysIn(y, m) ==
    IF m = 2 THEN (IF IsLeap(y) THEN 29 ELSE 28)
    ELSE IF m \in {4, 6, 9, 11} THEN 30 ELSE 31

\* datetime.strptime(s, "%d.%m.%Y"): the text is matched from its start
\* against (3[0-1]|[1-2]\d|0[1-9]|[1-9]| [1-9])\.(1[0-2]|0[1-9]|[1-9])\.(\d\d\d\d),
\* where \d is any decimal digit and the ranges are the ASCII digits; what
\* follows the year is unconverted data, and the date must exist; the first
\* message quotes the text as repr does
Strptime(text) ==
    With(text, LAMBDA s :
    With({i \in 1..Len(s) : s[i] = "."}, LAMBDA dots :
    LET bad == Raise("ValueError",
                     <<"time data ">> \o Repr(s) \o <<" does not match format '%d.%m.%Y'">>)
    IN  IF Cardinality(dots) < 2 THEN bad
        ELSE
    With(Min(dots), LAMBDA d1 :
    With(Min(dots \ {d1}), LAMBDA d2 :
    With(SubSeq(s, 1, d1 - 1), LAMBDA ds :
    With(SubSeq(s, d1 + 1, d2 - 1), LAMBDA ms :
    LET ys == SubSeq(s, d2 + 1, d2 + 4)
        rest == SubSeq(s, d2 + 5, Len(s))
        from(a, b) == {DigitChars[n + 1] : n \in a..b}
        dayOk == \/ Len(ds) = 2 /\ ds[1] = "3" /\ ds[2] \in from(0, 1)
                 \/ Len(ds) = 2 /\ ds[1] \in from(1, 2) /\ ds[2] \in Digit
                 \/ Len(ds) = 2 /\ ds[1] \in {"0", " "} /\ ds[2] \in from(1, 9)
                 \/ Len(ds) = 1 /\ ds[1] \in from(1, 9)
        monOk == \/ Len(ms) = 2 /\ ms[1] = "1" /\ ms[2] \in from(0, 2)
                 \/ Len(ms) = 2 /\ ms[1] = "0" /\ ms[2] \in from(1, 9)
                 \/ Len(ms) = 1 /\ ms[1] \in from(1, 9)
        yearOk == d2 + 4 <= Len(s) /\ IsDigits(ys)
        day == ToNat(IF ds[1] = " " THEN Tail(ds) ELSE ds)
    IN  IF ~(dayOk /\ monOk /\ yearOk) THEN bad
        ELSE IF rest # <<>>
        THEN Raise("ValueError", <<"unconverted data remains: ">> \o rest)
        ELSE IF ToNat(ys) = 0 THEN Raise("ValueError", <<"year 0 is out of range">>)
        ELSE IF day > DaysIn(ToNat(ys), ToNat(ms))
        THEN Raise("ValueError", <<"day is out of range for month">>)
        ELSE Ok([year |-> ToNat(ys), month |-> ToNat(ms), day |-> day])))))))

\* datetime < datetime
DateLess(a, b) ==
    \/ a.year < b.year
    \/ a.year = b.year /\ a.month < b.month
    \/ a.year = b.year /\ a.month = b.month /\ a.day < b.day

(***************************************************************************)
(* Meter history (async_fetch_account_data, the loop over meters).         *)
(***************************************************************************)
\* a variant of DictSet that adds an entry whatever the keys are, which C12
\* excludes
DictAppend(pairs, k, v) == Append(pairs, <<k, v>>)

\* history_dict[k] = v on a dict kept as <<key, value>> pairs in insertion
\* order: an existing key keeps its place
DictSet(pairs, k, v) ==
    IF \E i \in 1..Len(pairs) : pairs[i][1] = k
    THEN [i \in 1..Len(pairs) |-> IF pairs[i][1] = k THEN <<k, v>> ELSE pairs[i]]
    ELSE Append(pairs, <<k, v>>)

\* for history_item in history_items: ... history_dict[date_str] = float(...)
RECURSIVE HistoryItems(_, _)
HistoryItems(items, dict) ==
    IF items = <<>> THEN Ok(dict)
    ELSE LET item == Head(items)
             value1 == Get(item, "value1", EmptyDict)
             value_raw == Get(value1, "value", <<>>)
             date_str == Get(item, "dateList", <<>>)
         IN  IF IsNoneDict(item) \/ IsNoneDict(value1) THEN NoneHasNo("get")
             ELSE IF Truthy(value_raw) /\ Truthy(date_str)
             THEN With(ParseFloat(ReplaceComma(value_raw)), LAMBDA f :
                       IF f.ok
                       THEN HistoryItems(Tail(items), DictSet(dict, date_str, f.value))
                       ELSE f)
             ELSE HistoryItems(Tail(items), dict)

\* the merge of the history items and the meter's lastMeterValue
HistoryDict(history_items, meter) ==
    LET h == HistoryItems(IF IsNoneList(history_items) THEN <<>> ELSE history_items, <<>>)
        last == Get(meter, "lastMeterValue", EmptyDict)
        last_value_raw == Get(last, "listValue", <<>>)
        last_date == Get(last, "dateList", <<>>)
    IN  IF IsNoneList(history_items) THEN NOT_ITERABLE
        ELSE IF ~h.ok THEN h
        ELSE IF IsNoneDict(last) THEN NoneHasNo("get")
        ELSE IF Truthy(last_value_raw) /\ Truthy(last_date)
        THEN With(ParseFloat(ReplaceComma(last_value_raw)), LAMBDA f :
                  IF f.ok THEN Ok(DictSet(h.value, last_date, f.value)) ELSE f)
        ELSE h

\* one insertion of a stable sort: x goes after every entry not later than it
RECURSIVE InsertByDate(_, _)
InsertByDate(sorted, x) ==
    IF sorted = <<>> THEN <<x>>
    ELSE LET l == sorted[Len(sorted)]
         IN  IF DateLess(Strptime(x[1]).value, Strptime(l[1]).value)
             THEN Append(InsertByDate(SubSeq(sorted, 1, Len(sorted) - 1), x), l)
             ELSE Append(sorted, x)

RECURSIVE StableSort(_)
StableSort(pairs) ==
    IF pairs = <<>> THEN <<>>
    ELSE InsertByDate(StableSort(SubSeq(pairs, 1, Len(pairs) - 1)), pairs[Len(pairs)])

\* sorted(history_dict.items(), key=lambda x: datetime.strptime(x[0], "%d.%m.%Y"))
\* a variant of SortedHistory that keeps the entries as they are and parses
\* no date, which C14 excludes
KeepOrder(pairs) == Ok(pairs)

SortedHistory(pairs) ==
    LET badKeys == {i \in 1..Len(pairs) : ~Strptime(pairs[i][1]).ok}
    IN  IF badKeys # {} THEN Strptime(pairs[Min(badKeys)][1])
        ELSE Ok(StableSort(pairs))


(***************************************************************************)
(* Field normalizers of the coordinator.                                   *)
(***************************************************************************)
UNKNOWN == <<"Unknown">>
ADDRESS_NOT_RECOGNIZED == <<"Adres ne raspoznan">>
LS_NOT_FOUND == <<"L/s ne nayden">>
PARSE_ERROR == <<"Oshibka">>

\* row["cells"][0]["value"]
FirstCellValue(row) ==
    IF IsNoneDict(row) THEN NOT_SUBSCRIPTABLE
    ELSE IF ~Has(row, "cells") THEN Raise("KeyError", <<"'cells'">>)
    ELSE IF IsNoneList(row.cells) THEN NOT_SUBSCRIPTABLE
    ELSE IF row.cells = <<>> THEN Raise("IndexError", <<"list index out of range">>)
    ELSE IF IsNoneDict(row.cells[1]) THEN NOT_SUBSCRIPTABLE
    ELSE IF ~Has(row.cells[1], "value") THEN Raise("KeyError", <<"'value'">>)
    ELSE Ok(row.cells[1].value)

\* re.search(pattern, None)
NOT_A_STRING == Raise("TypeError", <<"expected string or bytes-like object, got 'NoneType'">>)

\* _extract_payment_status(title_custom_fields)
_extract_payment_status(title_custom_fields) ==
    LET rows == Get(title_custom_fields, "rows", <<>>)
        none == {i \in 1..Len(rows) : IsNoneDict(rows[i])}
        visible == {i \in 1..Len(rows) :
                      /\ ~IsNoneDict(rows[i])
                      /\ Has(rows[i], "isVisible") /\ rows[i].isVisible = TRUE}
    IN  IF IsNoneDict(title_custom_fields) THEN NoneHasNo("get")
        ELSE IF IsNoneList(rows) THEN NOT_ITERABLE
        ELSE IF none # {} /\ (visible = {} \/ Min(none) < Min(visible))
        THEN NoneHasNo("get")
        ELSE IF visible = {} THEN Ok(UNKNOWN)
        ELSE LET value == FirstCellValue(rows[Min(visible)])
             IN  IF ~value.ok THEN value
                 ELSE IF value.value = <<NONE>> THEN NOT_A_STRING
                 ELSE LET match == SpanSearch(value.value, FALSE)
                      IN  IF match.matched THEN Ok(Strip(match.group1))
                          ELSE Ok(Strip(value.value))

\* the try block of the account loop: the address from the first custom
\* field, the personal account from the title; any exception gives both
\* the error sentinel
ParseAccount(account) ==
    LET rows == Get(Get(account, "customFields", EmptyDict), "rows", <<>>)
        cell == IF IsNoneList(rows) THEN NOT_SUBSCRIPTABLE
                ELSE IF rows # <<>> THEN FirstCellValue(rows[1])
                ELSE Raise("KeyError", <<"'customFields'">>)
    IN  IF \/ ~cell.ok
           \/ cell.value = <<NONE>>
           \/ ~Has(account.objectId, "title")
           \/ account.objectId.title = <<NONE>>
        THEN [address |-> PARSE_ERROR, personal_account |-> PARSE_ERROR]
        ELSE LET addr_match == SpanSearch(cell.value, TRUE)
                 ls_match == LsSearch(account.objectId.title)
             IN  [address |-> IF addr_match.matched THEN Strip(addr_match.group1)
                              ELSE ADDRESS_NOT_RECOGNIZED,
                  personal_account |-> IF ls_match.matched THEN ls_match.group1
                                       ELSE LS_NOT_FOUND]

(***************************************************************************)
(* The API client: what each operation makes of the upstream's reply.      *)
(* A reply is [net, status, body]: net is "ok" when the POST got a         *)
(* response and else the exception it raised, status the HTTP status,      *)
(* body the JSON object of the response.                                   *)
(***************************************************************************)
\* the part all data operations share: the two status checks and data["data"]
ApiData(reply, failed) ==
    IF reply.net # "ok" THEN Raise(reply.net, <<"transport: ", reply.net>>)
    ELSE IF reply.status # HTTP_OK
    THEN Raise("ClientError", <<failed, ": HTTP ", ToString(reply.status)>>)
    ELSE IF IsNoneDict(reply.body) THEN NoneHasNo("get")
    ELSE IF ~(Has(reply.body, "statusCode") /\ reply.body.statusCode = HTTP_OK)
    THEN Raise("ClientError",
               <<failed, ": Status code ",
                 IF Has(reply.body, "statusCode")
                 THEN ToString(reply.body.statusCode) ELSE NONE>>)
    ELSE IF ~Has(reply.body, "data") THEN Raise("KeyError", <<"'data'">>)
    ELSE Ok(reply.body.data)

\* return data["data"]["items"]
Items(r) ==
    IF ~r.ok THEN r
    ELSE IF IsNoneDict(r.value) THEN NOT_SUBSCRIPTABLE
    ELSE IF ~Has(r.value, "items") THEN Raise("KeyError", <<"'items'">>)
    ELSE Ok(r.value.items)

authenticate(reply) == ApiData(reply, "Authentication failed")
get_accounts(reply) == Items(ApiData(reply, "Failed to get accounts"))
get_account_data(reply) == ApiData(reply, "Failed to get account data")
get_communal_requests(reply) == Items(ApiData(reply, "Failed to get communal requests"))
get_meters(reply) == Items(ApiData(reply, "Failed to get meters"))
get_meter_history(reply) == Items(ApiData(reply, "Failed to get meter history"))

\* camera["preview"] = camera.get("preview", "").split("?")[0]
StripPreview(camera) ==
    [k \in (DOMAIN camera) \cup {"preview"} |->
        IF k = "preview" THEN BeforeQuery(Get(camera, "preview", <<>>)) ELSE camera[k]]

get_cameras(reply) ==
    LET r == ApiData(reply, "Failed to get camera list")
    IN  IF ~r.ok THEN r
        ELSE IF IsNoneDict(r.value) THEN NoneHasNo("get")
        ELSE LET cameras == Get(r.value, "cameras", <<>>)
                 none == {i \in 1..Len(cameras) : IsNoneDict(cameras[i])}
                 split == {i \in 1..Len(cameras) :
                             ~IsNoneDict(cameras[i])
                                 /\ IsNone(Get(cameras[i], "preview", <<>>))}
             IN  IF IsNoneList(cameras) THEN NOT_ITERABLE
                 ELSE IF none # {} /\ (split = {} \/ Min(none) < Min(split))
                 THEN NoneHasNo("get")
                 ELSE IF split # {} THEN NoneHasNo("split")
                 ELSE Ok([i \in 1..Len(cameras) |-> StripPreview(cameras[i])])


\* the request of async_get_main_pass_data and of async_get_guest_passes:
\* the body of their try block
PassRequest(reply) ==
    IF reply.net # "ok" THEN Raise(reply.net, <<"transport: ", reply.net>>)
    ELSE IF reply.status = HTTP_OK /\ IsNoneDict(reply.body) THEN NoneHasNo("get")
    ELSE IF reply.status = HTTP_OK
            /\ Has(reply.body, "statusCode") /\ reply.body.statusCode = HTTP_OK
    THEN (IF Has(reply.body, "data") THEN Ok(reply.body.data)
          ELSE Raise("KeyError", <<"'data'">>))
    ELSE Ok(EmptyDict)

\* a variant of the lookups without the except clause, which C10 excludes
PassLookupUncaught(reply) == PassRequest(reply)

\* async_get_main_pass_data: except Exception: return {}
async_get_main_pass_data(reply) ==
    LET r == PassRequest(reply) IN IF r.ok THEN r ELSE Ok(EmptyDict)

\* async_get_guest_passes: except Exception: return {}
async_get_guest_passes(reply) ==
    LET r == PassRequest(reply) IN IF r.ok THEN r ELSE Ok(EmptyDict)

(***************************************************************************)
(* Stream resolution.  The reply of session.get(video_url) is              *)
(* [net, status, parse, body]: parse is "ok" when video_resp.json() gives  *)
(* a value and else the exception it raises, body is [json, fields] with   *)
(* json the kind of the JSON value.  A stream URL is a TLA+ string; a JSON *)
(* null is NONE.                                                           *)
(***************************************************************************)
\* video_data.get("url", ""): a JSON value that is not an object has no get
VideoUrlOf(body) ==
    IF body.json # "object"
    THEN Raise("AttributeError",
               <<"'", body.json, "' object has no attribute 'get'">>)
    ELSE Ok(Get(body.fields, "url", ""))

\* get_camera_stream_url: the camera dict afterwards, or the exception
get_camera_stream_url(camera, reply) ==
    IF ~Truthy(Get(camera, "videoUrl", <<>>)) THEN Ok(Put(camera, "stream_url", ""))
    ELSE IF reply.net # "ok" THEN Ok(Put(camera, "stream_url", ""))
    ELSE IF reply.status # HTTP_OK THEN Ok(Put(camera, "stream_url", ""))
    ELSE IF reply.parse \in {"JSONDecodeError", "ContentTypeError"}
    THEN Ok(Put(camera, "stream_url", ""))
    ELSE LET url == VideoUrlOf(reply.body)
         IN  IF url.ok THEN Ok(Put(camera, "stream_url", url.value)) ELSE url

\* the outcomes of the stream-URL request
StreamKinds == {"url", "no_url", "null_url", "array", "bad_json", "bad_content_type",
                "http_error", "conn_error", "timeout"}

StreamWire(kind) ==
    LET answer(status, parse, body) ==
            [net |-> "ok", status |-> status, parse |-> parse, body |-> body]
        object(fields) == [json |-> "object", fields |-> fields]
    IN  CASE kind = "url" -> answer(200, "ok", object([url |-> "rtsp://stream"]))
          [] kind = "no_url" -> answer(200, "ok", object([title |-> "yard"]))
          [] kind = "null_url" -> answer(200, "ok", object([url |-> NONE]))
          [] kind = "array" -> answer(200, "ok", [json |-> "list"])
          [] kind = "bad_json" -> answer(200, "JSONDecodeError", [json |-> "none"])
          [] kind = "bad_content_type" -> answer(200, "ContentTypeError", [json |-> "none"])
          [] kind = "http_error" -> answer(502, "ok", [json |-> "none"])
          [] kind = "conn_error" ->
               [net |-> "ClientError", status |-> 0, parse |-> "ok", body |-> [json |-> "none"]]
          [] OTHER ->
               [net |-> "TimeoutError", status |-> 0, parse |-> "ok", body |-> [json |-> "none"]]

\* cameras_data of the account: the cameras in with_url have a videoUrl
CamerasData(with_url) ==
    [i \in 1..MaxCameras |->
        IF i \in with_url
        THEN [id |-> i, title |-> <<"yard">>, preview |-> <<"p", ".", "j", "p", "g">>,
              videoUrl |-> <<"v", "/", ToString(i)>>]
        ELSE [id |-> i, title |-> <<"yard">>, preview |-> <<"p", ".", "j", "p", "g">>]]

(***************************************************************************)
(* The upstream: the replies it can give.  Its data has a revision, gen;   *)
(* an operation that succeeds returns the data of the current revision.    *)
(***************************************************************************)
ReplyKinds == {"ok", "http_error", "status_error", "no_data", "conn_error", "timeout"}
FaultKinds == ReplyKinds \ {"ok"}

Wire(kind, payload) ==
    CASE kind = "ok" ->
           [net |-> "ok", status |-> 200, body |-> [statusCode |-> 200, data |-> payload]]
      [] kind = "http_error" ->
           [net |-> "ok", status |-> 500, body |-> EmptyDict]
      [] kind = "status_error" ->
           [net |-> "ok", status |-> 200, body |-> [statusCode |-> 403]]
      [] kind = "no_data" ->
           [net |-> "ok", status |-> 200, body |-> [statusCode |-> 200]]
      [] kind = "conn_error" ->
           [net |-> "ClientError", status |-> 0, body |-> EmptyDict]
      [] kind = "timeout" ->
           [net |-> "TimeoutError", status |-> 0, body |-> EmptyDict]

AccountTitle(a) == LS_MARK \o <<DigitChars[a + 1], "7">>
AddressHtml(a) == <<"<", "s", "p", "a", "n", ">">> \o <<" ", "S", "t", " ", DigitChars[a + 1], " ">> \o SPAN_CLOSE
StatusHtml(g) ==
    IF g % 2 = 1 THEN <<"<", "s", "p", "a", "n", ">">> \o <<" ", "P", "a", "i", "d", " ">> \o SPAN_CLOSE
    ELSE <<" ", "D", "e", "b", "t">>

\* the accounts listed at revision g: account 1 is closed at even revisions
ListedAccounts(g) ==
    LET all == [i \in 1..NumAccounts |-> i]
    IN  IF g % 2 = 1 THEN all ELSE Tail(all)

AccountItem(g, a) ==
    [objectId |-> [id |-> a, title |-> AccountTitle(a)],
     customFields |-> [rows |-> <<[cells |-> <<[value |-> AddressHtml(a)]>>]>>],
     notificationCount |-> g]

UpstreamAccounts(g) ==
    [items |-> [i \in 1..Len(ListedAccounts(g)) |-> AccountItem(g, ListedAccounts(g)[i])]]

\* the cells of an accrual: its date and the sum charged, "Nachisleno"
\* standing for the Cyrillic word the sensor platform looks for
NACHISLENO == <<"N", "a", "c", "h", "i", "s", "l", "e", "n", "o">>
AccrualFields(g) ==
    [rows |-> <<[cells |-> <<[value |-> <<"<", "b", ">", "0", "1", ".", "0", "2", "<", "/", "b", ">">>],
                             [value |-> <<"<", "b", ">">> \o NACHISLENO
                                        \o <<" ", DigitChars[g + 1], "0", "0", ",", "1", "2", "3", "4", "5",
                                             " ", "r", "<", "/", "b", ">">>]>>]>>]

\* the second item is of no communal account
UpstreamAccountData(g, a) ==
    [items |-> <<[objectId |-> [id |-> 1], listFields |-> AccrualFields(g),
                  communalAccount |-> [id |-> a, title |-> AccountTitle(a)]],
                 [objectId |-> [id |-> 2], listFields |-> AccrualFields(g)]>>,
     optionalObject |->
        [rows |-> <<[isVisible |-> FALSE, cells |-> <<[value |-> <<" ", "D", "e", "b", "t">>]>>],
                    [isVisible |-> TRUE, cells |-> <<[value |-> StatusHtml(g)]>>]>>],
     notificationCount |-> g + 1]

UpstreamRequests(g, a) ==
    [items |-> <<[id |-> 1, status |-> [id |-> IF g % 2 = 1 THEN "AtWork" ELSE "Done"]]>>]

MeterId(a, k) == 10 * a + k
\* the meter of an even account has no lastMeterValue yet
MeterEntry(a, k) ==
    LET meter == [objectId |-> [id |-> MeterId(a, k), title |-> <<"HW">>],
                  type |-> [id |-> "HotWater", title |-> <<"hot">>]]
    IN  IF a % 2 = 0 THEN meter
        ELSE Put(meter, "lastMeterValue",
                 [listValue |-> <<"1", "2", ",", "0">>, dateList |-> <<"0", "1", ".", "0", "2", ".", "2", "0", "2", "4">>])

\* an odd account has two meters, an even account one; the list of an even
\* account also holds an entry without objectId, one whose objectId is null,
\* one whose objectId has no id, one whose id is empty and one whose id is
\* null
UpstreamMeters(g, a) ==
    [items |-> (IF a % 2 = 0
                THEN <<[type |-> [id |-> "Other"]], [objectId |-> NoneDict],
                       [objectId |-> [title |-> <<"HW">>]],
                       [objectId |-> [id |-> EMPTY_ID, title |-> <<"HW">>]],
                       [objectId |-> [id |-> NONE_ID, title |-> <<"HW">>]]>>
                ELSE <<>>)
               \o <<MeterEntry(a, 1)>>
               \o (IF a % 2 = 1 THEN <<MeterEntry(a, 2)>> ELSE <<>>)]

UpstreamHistory(g, m) ==
    [items |-> <<[dateList |-> <<"0", "1", ".", "0", "2", ".", "2", "0", "2", "4">>,
                  value1 |-> [value |-> IF g % 2 = 1 THEN <<"1", "2", ",", "0">> ELSE <<"1", "1", ",", "5">>]],
                 [dateList |-> <<"0", "1", ".", "0", "1", ".", "2", "0", "2", "4">>, value1 |-> [value |-> <<"1", "0", ",", "5">>]]>>]

\* a history whose one reading is dated in another format than the
\* "%d.%m.%Y" the coordinator parses
MalformedHistory(g, m) ==
    [items |-> <<[dateList |-> <<"2", "0", "2", "4", "-", "0", "1", "-", "0", "1">>,
                  value1 |-> [value |-> <<"1", "0", ",", "5">>]]>>]

UpstreamCameras(g, a) ==
    [cameras |-> <<[id |-> a, title |-> <<"yard">>,
                    preview |-> <<"p", ".", "j", "p", "g", "?", "t", "=", "5">>,
                    videoUrl |-> <<"v", "/", "1">>]>>]

UpstreamMainPass(g, a) == [pin |-> <<"1", "0", "0", DigitChars[a + 1]>>]

\* at an even revision the guest pass of an even account names no strategy
\* (dateFrom and dateTo are seconds since the epoch)
UpstreamGuestPasses(g, a) ==
    LET pass == [pin |-> <<"2", "0", "0", DigitChars[a + 1]>>,
                 dateFrom |-> 1700000000, dateTo |-> 1700086400]
    IN  [count |-> 1,
         items |-> <<IF g % 2 = 0 /\ a % 2 = 0 THEN pass
                     ELSE Put(pass, "strategy", [title |-> <<"g", "u", "e", "s", "t">>])>>]


(***************************************************************************)
(* State.                                                                  *)
(***************************************************************************)
VARIABLES
    access_token,   \* self.access_token
    refresh_token,  \* self.refresh_token
    data,           \* self.data: the published snapshot
    task,           \* per refresh operation: where its coroutine is, and its locals
    gen,            \* the revision of the upstream's data
    faults,         \* failed replies of data operations so far
    started,        \* refresh cycles started so far
    stream,         \* the coordinator of version 1.0.3: its tokens and its refresh
    calc,           \* a normalizing function applied on its own: input and result
    entities,       \* the sensor entities async_setup_entry has added
    install         \* the configured installation: its config flow, its coordinators
                    \* and the device identifiers their authentications carried

vars == <<access_token, refresh_token, data, task, gen, faults, started, stream, calc, entities, install>>

\* the replies a data operation can get, and the faults counted with it
Replies == IF faults < MaxFaults THEN ReplyKinds ELSE {"ok"}
Counted(kind) == IF kind = "ok" THEN faults ELSE faults + 1

\* the replies of the meter-history request: those of every request, and a
\* well-formed reply that carries the malformed history
HistoryReplies == Replies \cup (IF faults < MaxFaults THEN {"bad_date"} ELSE {})
HistoryWire(kind, g, m) ==
    IF kind = "bad_date" THEN Wire("ok", MalformedHistory(g, m))
    ELSE Wire(kind, UpstreamHistory(g, m))

\* self.data before the first refresh, and a published dict
NoData == [kind |-> "None"]
\* a variant that keeps the records of the accounts that are no longer
\* listed, which C35 excludes
SnapshotMerged(detailed_data) ==
    [kind |-> "dict",
     items |-> IF data.kind = "None" THEN detailed_data
               ELSE detailed_data
                    \o SelectSeq(data.items, LAMBDA pair : pair[1] \notin Keys(detailed_data))]

\* the dict of the account records, in the order they were stored in
Snapshot(detailed_data) == [kind |-> "dict", items |-> detailed_data]

NoOutcome == [kind |-> "none"]

\* the locals of async_fetch_account_data
NewFrame(account_id) ==
    [account_id |-> account_id, account_data |-> EmptyDict, communal_requests |-> <<>>,
     meters_data |-> <<>>, k |-> 0, meters_history |-> EmptyDict, cameras |-> <<>>,
     payment_status |-> <<>>, main_pass |-> EmptyDict]

\* a refresh operation that is not running; before is the snapshot that was
\* published when the operation started
IdleTask ==
    [pc |-> "idle", cycle |-> 0, before |-> NoData, attempt |-> 0, trace |-> <<>>, auth_data |-> EmptyDict,
     accounts_data |-> <<>>, n |-> 0, parsed |-> EmptyDict, fr |-> NewFrame(0),
     detailed_data |-> EmptyDict, calls |-> <<>>, outcome |-> NoOutcome]

\* a variant of the include flags that is True in both refreshes, which C6
\* excludes
IncludeAlways(p) == TRUE

\* _async_update_data passes include_cameras=True, include_main_pass=True,
\* include_guest_passes=True; async_force_update_sensors passes False
include_cameras(p) == p = "scheduled"
\* a variant in which the sensors-only refresh looks up the main pass, which
\* C30 excludes
IncludeMainPass(p) == TRUE

include_main_pass(p) == p = "scheduled"
include_guest_passes(p) == p = "scheduled"

\* a variant of UpdateFailed whose message leaves out the error, which C7
\* excludes
UpdateFailedBare(p, err) ==
    [type |-> "UpdateFailed",
     msg |-> <<IF p = "scheduled" THEN "Error communicating with API: "
               ELSE "Error during force update: ">>,
     cause |-> err]

\* except Exception as err: raise UpdateFailed(f"...: {err}") from err
UpdateFailed(p, err) ==
    [type |-> "UpdateFailed",
     msg |-> <<IF p = "scheduled" THEN "Error communicating with API: "
               ELSE "Error during force update: ">> \o err.msg,
     cause |-> err]

\* the refresh raises: its locals are gone, the caller gets the exception
Fail(t, p, err) ==
    [IdleTask EXCEPT !.pc = "returned", !.cycle = t.cycle, !.before = t.before,
                     !.trace = t.trace,
                     !.calls = t.calls,
                     !.outcome = [kind |-> "raised", exc |-> UpdateFailed(p, err)]]

\* the refresh returns detailed_data (scheduled) or has assigned it (forced)
Done(t) ==
    [IdleTask EXCEPT !.pc = "returned", !.cycle = t.cycle, !.before = t.before,
                     !.trace = t.trace,
                     !.calls = t.calls,
                     !.outcome = [kind |-> "ok", result |-> t.detailed_data]]

\* a call of the API client is issued and awaited
Await(t, op, target) ==
    [t EXCEPT !.pc = op, !.calls = Append(t.calls, <<op, target>>)]

\* the head of the loop over accounts_data, up to the first await of
\* async_fetch_account_data
BeginAccount(t, p, n) ==
    LET account == t.accounts_data[n]
    IN  IF IsNoneDict(account) THEN Fail(t, p, NOT_SUBSCRIPTABLE.err)
        ELSE IF ~Has(account, "objectId")
        THEN Fail(t, p, [type |-> "KeyError", msg |-> <<"'objectId'">>])
        ELSE IF IsNoneDict(account.objectId) THEN Fail(t, p, NOT_SUBSCRIPTABLE.err)
        ELSE IF ~Has(account.objectId, "id")
        THEN Fail(t, p, [type |-> "KeyError", msg |-> <<"'id'">>])
        ELSE Await([t EXCEPT !.n = n, !.parsed = ParseAccount(account),
                             !.fr = NewFrame(account.objectId.id)],
                   "get_account_data", account.objectId.id)

\* items = account_data.get("items", []) and the list valid_items of the
\* items whose communalAccount has a title
ValidItems(account_data) ==
    LET items == Get(account_data, "items", <<>>)
        none == {i \in 1..Len(items) :
                   \/ IsNoneDict(items[i])
                   \/ IsNoneDict(Get(items[i], "communalAccount", EmptyDict))}
    IN  IF IsNoneDict(account_data) THEN NoneHasNo("get")
        ELSE IF IsNoneList(items) THEN NOT_ITERABLE
        ELSE IF none # {} THEN NoneHasNo("get")
        ELSE Ok(SelectSeq(items,
                   LAMBDA item : Truthy(Get(Get(item, "communalAccount", EmptyDict),
                                            "title", <<>>))))

\* str(n) of a number n >= 0
RECURSIVE DecimalText(_)
DecimalText(n) ==
    IF n < 10 THEN <<DigitChars[n + 1]>>
    ELSE DecimalText(n \div 10) \o <<DigitChars[(n % 10) + 1]>>

\* f"{account_id}": the id as it is, nothing for the empty one and "None"
\* for None
IdText(account_id) ==
    IF account_id = NONE_ID THEN <<"N", "o", "n", "e">>
    ELSE IF account_id = EMPTY_ID THEN <<>>
    ELSE DecimalText(account_id)

\* the end of one pass of the loop: the account's record is stored under
\* the account's id, after the records stored before unless the id has one
FinishAccount(t, p, guest_passes) ==
    LET fr == t.fr
        account == t.accounts_data[t.n]
        valid_items == ValidItems(fr.account_data).value
        has_account == valid_items # <<>>
        communal_account == IF has_account THEN valid_items[1].communalAccount ELSE EmptyDict
        fallback_number == LS_MARK \o IdText(fr.account_id)
        account_data ==
            [id |-> IF has_account THEN Get(communal_account, "id", fr.account_id)
                    ELSE fr.account_id,
             number |-> IF has_account THEN Get(communal_account, "title", fallback_number)
                        ELSE fallback_number,
             payment_status |-> fr.payment_status,
             notification_count |-> Get(account, "notificationCount", 999),
             camera_count |-> Len(fr.cameras),
             cameras |-> fr.cameras,
             accruals |-> valid_items,
             communal_requests |-> fr.communal_requests,
             meters |-> fr.meters_history,
             main_pass |-> fr.main_pass,
             guest_passes |-> guest_passes,
             address |-> t.parsed.address,
             personal_account |-> t.parsed.personal_account]
        t2 == [t EXCEPT !.detailed_data = DictSet(t.detailed_data, fr.account_id, account_data)]
    IN  IF t.n < Len(t.accounts_data) THEN BeginAccount(t2, p, t.n + 1) ELSE Done(t2)

\* the result dict is built in order: payment_status, then the two lookups
AfterCameras(t, p) ==
    LET status == _extract_payment_status(Get(t.fr.account_data, "optionalObject", EmptyDict))
        t2 == [t EXCEPT !.fr.payment_status = status.value]
    IN  IF ~status.ok THEN Fail(t, p, status.err)
        ELSE IF include_main_pass(p) THEN Await(t2, "main_pass", t.fr.account_id)
        ELSE IF include_guest_passes(p) THEN Await(t2, "guest_passes", t.fr.account_id)
        ELSE FinishAccount(t2, p, EmptyDict)

\* a variant in which the sensors-only refresh leaves out the payment
\* status, which C25 excludes
AfterMetersBare(t, p) ==
    IF ~ValidItems(t.fr.account_data).ok
    THEN Fail(t, p, ValidItems(t.fr.account_data).err)
    ELSE IF include_cameras(p) THEN Await(t, "get_cameras", t.fr.account_id)
    ELSE FinishAccount(t, p, EmptyDict)

\* after the loop over meters: the accrual items, then the cameras
AfterMeters(t, p) ==
    IF ~ValidItems(t.fr.account_data).ok
    THEN Fail(t, p, ValidItems(t.fr.account_data).err)
    ELSE IF include_cameras(p) THEN Await(t, "get_cameras", t.fr.account_id)
    ELSE AfterCameras(t, p)

\* the loop over meters_data from entry k on: entries without an objectId
\* or without an id are skipped
HasMeterId(meter) ==
    /\ TruthyDict(Get(meter, "objectId", EmptyDict))
    /\ Get(meter.objectId, "id", NONE_ID) \notin {NONE_ID, EMPTY_ID}

\* a variant that leaves the loop at the first entry without an identifier,
\* which C36 excludes
NextMeterBreak(t, p, k) ==
    IF k > Len(t.fr.meters_data) \/ ~HasMeterId(t.fr.meters_data[k]) THEN AfterMeters(t, p)
    ELSE Await([t EXCEPT !.fr.k = k], "get_meter_history", t.fr.meters_data[k].objectId.id)

NextMeter(t, p, k) ==
    LET none == {j \in k..Len(t.fr.meters_data) : IsNoneDict(t.fr.meters_data[j])}
        todo == {j \in k..Len(t.fr.meters_data) :
                   ~IsNoneDict(t.fr.meters_data[j]) /\ HasMeterId(t.fr.meters_data[j])}
    IN  IF none # {} /\ (todo = {} \/ Min(none) < Min(todo))
        THEN Fail(t, p, NoneHasNo("get").err)
        ELSE IF todo = {} THEN AfterMeters(t, p)
        ELSE Await([t EXCEPT !.fr.k = Min(todo)], "get_meter_history",
                   t.fr.meters_data[Min(todo)].objectId.id)


\* the coordinator of version 1.0.3 after __init__, no refresh running: its
\* tokens, and the locals of _async_update_data.  calls lists the calls of
\* the data operations the refresh has issued, pending the cameras whose
\* stream-URL request is not answered yet, got what each camera's request
\* was answered with, raised_in the place the refresh's exception came from,
\* left the camera lists of the refreshes that ended while requests of their
\* tasks were out (the tasks go on after their refresh)
IdleStream ==
    [pc |-> "idle", attempt |-> 0, access_token |-> NoToken, refresh_token |-> NoToken,
     calls |-> <<>>, accounts_data |-> <<>>, n |-> 0, account_id |-> 0,
     account_data |-> EmptyDict, communal_requests |-> <<>>, cameras_data |-> <<>>,
     meters_data |-> <<>>, k |-> 0, meters_history |-> EmptyDict,
     pending |-> {}, got |-> <<>>, detailed_data |-> EmptyDict,
     raised_in |-> "none", outcome |-> NoOutcome, left |-> <<>>]

(***************************************************************************)
(* Actions.                                                                *)
(***************************************************************************)
\* the integration before its config flow: no entry, no coordinator, no
\* authentication sent
NewInstall == [pc |-> "flow", flow |-> "none", coordinators |-> <<>>, sent |-> <<>>]

\* the sensor platform is not set up yet
NoEntities == [kind |-> "none"]

\* no function is applied on its own
NoCalc == [fn |-> "none"]

\* the coordinator after __init__, before its first refresh
InitCoordinator ==
    /\ access_token = NoToken
    /\ refresh_token = NoToken
    /\ data = NoData
    /\ task = [p \in Refreshers |-> IdleTask]
    /\ gen = 1
    /\ faults = 0
    /\ started = 0
    /\ stream = IdleStream
    /\ entities = NoEntities
    /\ install = NewInstall

Init ==
    /\ InitCoordinator
    /\ calc = NoCalc

\* _authenticate is entered: attempt = 1 and the first authenticate() call
\* a variant of EnterAuthenticate that asks for the account list at once,
\* which C16 excludes
EnterWithoutAuth(t) == Await(t, "get_accounts", 0)

EnterAuthenticate(t) ==
    [t EXCEPT !.pc = "authenticate", !.attempt = 1, !.trace = <<<<"attempt", 1>>>>]

\* A refresh starts.  The scheduled one is DataUpdateCoordinator's call of
\* _async_update_data, the first of which is async_setup_entry's first
\* refresh: a coordinator whose first refresh failed is dropped.  The forced
\* one is a call of async_force_update_sensors, a public method of the
\* coordinator of a set-up entry; its caller is outside the coordinator
\* (button.py has one in async_press, but the button platform is not among
\* the PLATFORMS that __init__.py sets up).  The method takes no lock: a
\* call may start while another is in flight, ForcedSlot(i) being the i-th
\* forced refresh in flight.
Trigger(p) ==
    /\ task[p].pc = "idle"
    /\ started < MaxRefreshes
    /\ IF p = "scheduled" THEN started = 0 \/ data # NoData ELSE data # NoData
    /\ p # "scheduled" =>
          \E i \in 1..MaxForced :
              /\ p = ForcedSlot(i)
              /\ \A j \in 1..(i - 1) : task[ForcedSlot(j)].pc # "idle"
    /\ started' = started + 1
    /\ task' = [task EXCEPT ![p] = EnterAuthenticate([IdleTask EXCEPT !.cycle = started + 1,
                                                                    !.before = data])]
    /\ UNCHANGED <<access_token, refresh_token, data, gen, faults, stream, calc, entities, install>>

\* a variant of StoreTokens that leaves the tokens as they were, which C3
\* excludes
KeepTokens(auth_data, access, refresh) ==
    [access_token |-> access, refresh_token |-> refresh]

\* self.access_token = auth_data["accessToken"], then
\* self.refresh_token = auth_data["refreshToken"]: the two tokens afterwards
StoreTokens(auth_data, access, refresh) ==
    [access_token |-> Get(auth_data, "accessToken", access),
     refresh_token |-> IF Has(auth_data, "accessToken")
                       THEN Get(auth_data, "refreshToken", refresh) ELSE refresh]

\* a variant of LastAttempt that is one attempt late, which C2 excludes
LastAttemptLate(attempt) == attempt = max_attempts + 1

\* if attempt == max_attempts
LastAttempt(attempt) == attempt = max_attempts

\* One pass of the while loop of _authenticate, from the reply of
\* authenticate() on.  Gives the task and the two tokens afterwards.
AuthStep(t, p, reply, access, refresh) ==
    LET r == authenticate(reply)
        hasAccess == r.ok /\ Has(r.value, "accessToken")
        hasRefresh == r.ok /\ Has(r.value, "refreshToken")
        err == IF ~r.ok THEN r.err
               ELSE IF IsNoneDict(r.value) THEN NOT_SUBSCRIPTABLE.err
               ELSE [type |-> "KeyError",
                     msg |-> <<IF hasAccess THEN "'refreshToken'" ELSE "'accessToken'">>]
        failed == [t EXCEPT !.trace = Append(t.trace, <<"failed", t.attempt>>)]
        stored == StoreTokens(IF r.ok THEN r.value ELSE EmptyDict, access, refresh)
    IN  IF hasAccess /\ hasRefresh
        THEN [task |-> Await([t EXCEPT !.trace = Append(t.trace, <<"ok", t.attempt>>),
                                       !.auth_data = r.value],
                             "get_accounts", 0),
              access_token |-> stored.access_token,
              refresh_token |-> stored.refresh_token]
        ELSE [task |->
                IF LastAttempt(t.attempt)
                THEN Fail(failed, p,
                          [type |-> "ConfigEntryAuthFailed",
                           msg |-> <<"Authentication error after ", ToString(max_attempts),
                                     " attempts: ">> \o err.msg])
                ELSE [failed EXCEPT !.pc = "sleep",
                                    !.trace = Append(failed.trace, <<"sleep", RETRY_DELAY>>)],
              access_token |-> stored.access_token,
              refresh_token |-> stored.refresh_token]

\* the tokens the upstream issues to a cycle, with or without a refresh token
AuthPayload(cycle, full) ==
    IF full THEN [accessToken |-> cycle, refreshToken |-> cycle]
    ELSE [accessToken |-> cycle + MaxRefreshes]

\* a reply without a refresh token is counted with the failed replies
Payloads == IF faults < MaxFaults THEN BOOLEAN ELSE {TRUE}

AuthReply(p) ==
    /\ task[p].pc = "authenticate"
    /\ \E kind \in ReplyKinds, full \in Payloads :
       \E next \in {AuthStep(task[p], p, Wire(kind, AuthPayload(task[p].cycle, full)),
                              access_token, refresh_token)} :
         /\ task' = [task EXCEPT ![p] = next.task]
         /\ access_token' = next.access_token
         /\ refresh_token' = next.refresh_token
         /\ faults' = IF kind = "ok" /\ ~full THEN faults + 1 ELSE faults
    /\ UNCHANGED <<data, gen, started, stream, calc, entities, install>>

\* a variant of SleepDone in which the sleep between two attempts never
\* ends, which C18 excludes
SleepForever(p) ==
    /\ task[p].pc = "sleep"
    /\ UNCHANGED vars

\* asyncio.sleep(15) is over: attempt += 1 and the next authenticate() call
SleepDone(p) ==
    /\ task[p].pc = "sleep"
    /\ task' = [task EXCEPT ![p] =
                  [@ EXCEPT !.pc = "authenticate", !.attempt = @ + 1,
                            !.trace = Append(@, <<"attempt", task[p].attempt + 1>>)]]
    /\ UNCHANGED <<access_token, refresh_token, data, gen, faults, started, stream, calc, entities, install>>

\* a variant that writes every finished account record into the shared
\* snapshot at once, which C32 excludes
ProceedEager(p, t, kind) ==
    /\ task' = [task EXCEPT ![p] = t]
    /\ data' = IF t.outcome.kind = "ok" THEN Snapshot(t.outcome.result)
               ELSE IF t.detailed_data # EmptyDict THEN Snapshot(t.detailed_data)
               ELSE data
    /\ faults' = Counted(kind)
    /\ UNCHANGED <<access_token, refresh_token, gen, started, stream, calc, entities, install>>

\* the task after a step, and the snapshot: a refresh that ends without an
\* exception publishes its detailed_data (DataUpdateCoordinator assigns
\* what _async_update_data returns; async_force_update_sensors assigns it)
Proceed(p, t, kind) ==
    /\ task' = [task EXCEPT ![p] = t]
    /\ data' = IF t.outcome.kind = "ok" THEN Snapshot(t.outcome.result) ELSE data
    /\ faults' = Counted(kind)
    /\ UNCHANGED <<access_token, refresh_token, gen, started, stream, calc, entities, install>>

AccountsReply(p) ==
    /\ task[p].pc = "get_accounts"
    /\ \E kind \in Replies :
       \E r \in {get_accounts(Wire(kind, UpstreamAccounts(gen)))} :
       \E t \in {[task[p] EXCEPT !.trace = <<>>, !.auth_data = EmptyDict,
                                  !.attempt = 0]} :
       \E next \in {IF ~r.ok THEN Fail(t, p, r.err)
                    ELSE IF IsNoneList(r.value) THEN Fail(t, p, NOT_ITERABLE.err)
                    ELSE IF r.value = <<>> THEN Done(t)
                    ELSE BeginAccount([t EXCEPT !.accounts_data = r.value], p, 1)} :
         Proceed(p, next, kind)

AccountDataReply(p) ==
    /\ task[p].pc = "get_account_data"
    /\ \E kind \in Replies :
       \E t \in {task[p]} :
       \E r \in {get_account_data(Wire(kind, UpstreamAccountData(gen, t.fr.account_id)))} :
       \E next \in {IF ~r.ok THEN Fail(t, p, r.err)
                    ELSE Await([t EXCEPT !.fr.account_data = r.value],
                               "get_communal_requests", t.fr.account_id)} :
         Proceed(p, next, kind)

CommunalRequestsReply(p) ==
    /\ task[p].pc = "get_communal_requests"
    /\ \E kind \in Replies :
       \E t \in {task[p]} :
       \E r \in {get_communal_requests(Wire(kind, UpstreamRequests(gen, t.fr.account_id)))} :
       \E next \in {IF ~r.ok THEN Fail(t, p, r.err)
                    ELSE Await([t EXCEPT !.fr.communal_requests = r.value],
                               "get_meters", t.fr.account_id)} :
         Proceed(p, next, kind)

MetersReply(p) ==
    /\ task[p].pc = "get_meters"
    /\ \E kind \in Replies :
       \E t \in {task[p]} :
       \E r \in {get_meters(Wire(kind, UpstreamMeters(gen, t.fr.account_id)))} :
       \E next \in {IF ~r.ok THEN Fail(t, p, r.err)
                    ELSE IF IsNoneList(r.value) THEN Fail(t, p, NOT_ITERABLE.err)
                    ELSE NextMeter([t EXCEPT !.fr.meters_data = r.value], p, 1)} :
         Proceed(p, next, kind)

\* the body of the loop over meters after get_meter_history, for a meter
\* whose type is a dict or missing
MeterRecord(meter, history) ==
    [title |-> Get(meter.objectId, "title", UNKNOWN),
     type_id |-> Get(Get(meter, "type", EmptyDict), "id", NONE),
     type_title |-> Get(Get(meter, "type", EmptyDict), "title", <<NONE>>),
     history |-> history]

\* (each intermediate value is bound once, as the one element of a set)
MeterHistoryReply(p) ==
    /\ task[p].pc = "get_meter_history"
    /\ \E kind \in HistoryReplies :
       \E t \in {task[p]} :
       \E meter \in {t.fr.meters_data[t.fr.k]} :
       \E r \in {get_meter_history(HistoryWire(kind, gen, meter.objectId.id))} :
       \E dict \in {IF r.ok THEN HistoryDict(r.value, meter) ELSE r} :
       \E history \in {IF ~dict.ok THEN dict
                       ELSE IF IsNoneDict(Get(meter, "type", EmptyDict))
                       THEN NoneHasNo("get")
                       ELSE SortedHistory(dict.value)} :
       \E next \in {IF ~history.ok THEN Fail(t, p, history.err)
                    ELSE NextMeter([t EXCEPT !.fr.meters_history =
                                       DictSet(@, meter.objectId.id,
                                               MeterRecord(meter, history.value))],
                                   p, t.fr.k + 1)} :
         Proceed(p, next, kind)

CamerasReply(p) ==
    /\ task[p].pc = "get_cameras"
    /\ \E kind \in Replies :
       \E t \in {task[p]} :
       \E r \in {get_cameras(Wire(kind, UpstreamCameras(gen, t.fr.account_id)))} :
       \E next \in {IF ~r.ok THEN Fail(t, p, r.err)
                    ELSE AfterCameras([t EXCEPT !.fr.cameras = r.value], p)} :
         Proceed(p, next, kind)

MainPassReply(p) ==
    /\ task[p].pc = "main_pass"
    /\ \E kind \in Replies :
       \E t \in {task[p]} :
       \E r \in {async_get_main_pass_data(Wire(kind, UpstreamMainPass(gen, t.fr.account_id)))} :
       \E next \in {IF ~r.ok THEN Fail(t, p, r.err)
                    ELSE IF include_guest_passes(p)
                    THEN Await([t EXCEPT !.fr.main_pass = r.value],
                               "guest_passes", t.fr.account_id)
                    ELSE FinishAccount([t EXCEPT !.fr.main_pass = r.value],
                                       p, EmptyDict)} :
         Proceed(p, next, kind)

GuestPassesReply(p) ==
    /\ task[p].pc = "guest_passes"
    /\ \E kind \in Replies :
       \E t \in {task[p]} :
       \E r \in {async_get_guest_passes(Wire(kind, UpstreamGuestPasses(gen, t.fr.account_id)))} :
       \E next \in {IF ~r.ok THEN Fail(t, p, r.err)
                    ELSE FinishAccount(t, p, r.value)} :
         Proceed(p, next, kind)

\* the caller of the refresh has the result or the exception
Return(p) ==
    /\ task[p].pc = "returned"
    /\ task' = [task EXCEPT ![p] = IdleTask]
    /\ UNCHANGED <<access_token, refresh_token, data, gen, faults, started, stream, calc, entities, install>>

\* the upstream's data changes, between refresh cycles
UpstreamChange ==
    /\ gen < MaxGen
    /\ \A p \in Refreshers : task[p].pc \in {"idle", "returned"}
    /\ gen' = gen + 1
    /\ UNCHANGED <<access_token, refresh_token, data, task, faults, started, stream, calc, entities, install>>

(***************************************************************************)
(* The refresh of version 1.0.3 (src/coordinator.py, _async_update_data),  *)
(* with the API client its import line asks for, the one of                *)
(* custom_components/lsr.  For each account it awaits the account detail,  *)
(* the communal requests, the camera list and the meter list in this       *)
(* order, then the history of each meter, and then resolves the stream     *)
(* URLs with one task per camera, awaited together with asyncio.gather.    *)
(* Every exception ends the refresh with UpdateFailed.                     *)
(***************************************************************************)
\* a call of the API client is issued and awaited
LegacyAwait(s, op, target) ==
    [s EXCEPT !.pc = op, !.calls = Append(s.calls, <<op, target>>)]

\* except Exception as err: raise UpdateFailed(...) from err
LegacyRaise(s, place, err) ==
    [s EXCEPT !.pc = "returned", !.raised_in = place,
              !.outcome = [kind |-> "raised", exc |-> UpdateFailed("scheduled", err)]]

\* for account in accounts_data: account_id = account["objectId"]["id"] and
\* the first await of the pass; after the last account, return detailed_data
LegacyNextAccount(s, n) ==
    IF n > Len(s.accounts_data)
    THEN [s EXCEPT !.pc = "returned",
                   !.outcome = [kind |-> "ok", result |-> s.detailed_data]]
    ELSE With(Then(Item(s.accounts_data[n], "objectId"), LAMBDA objectId : Item(objectId, "id")),
              LAMBDA account_id :
                  IF ~account_id.ok THEN LegacyRaise(s, "loop", account_id.err)
                  ELSE LegacyAwait([s EXCEPT !.n = n, !.account_id = account_id.value],
                                   "get_account_data", account_id.value))

\* address = account_data.get("optionalObject", {}).get("rows", [{}])[0]
\*     .get("cells", [{}])[0].get("value", "Unknown"), then the digits after
\* the account mark if the text has them and else "Unknown"
LegacyAddress(account_data) ==
    Then(DictGet(account_data, "optionalObject", EmptyDict), LAMBDA optionalObject :
    Then(DictGet(optionalObject, "rows", <<EmptyDict>>), LAMBDA rows :
    Then(At(rows, 1), LAMBDA row :
    Then(DictGet(row, "cells", <<EmptyDict>>), LAMBDA cells :
    Then(At(cells, 1), LAMBDA cell :
    Then(DictGet(cell, "value", UNKNOWN), LAMBDA address :
         IF Truthy(address) /\ LsSearch(address).matched
         THEN Ok(LsSearch(address).group1)
         ELSE Ok(UNKNOWN)))))))

\* detailed_data[account_id] = {...}: the values in the order the dict
\* display computes them
LegacyRecord(account, s) ==
    Then(LegacyAddress(s.account_data), LAMBDA address :
    Then(_extract_payment_status(Get(s.account_data, "optionalObject", EmptyDict)),
         LAMBDA payment_status :
    Then(Then(Item(account, "objectId"), LAMBDA objectId : Item(objectId, "title")),
         LAMBDA number :
         Ok([id |-> s.account_id,
             address |-> address,
             payment_status |-> payment_status,
             number |-> number,
             notification_count |-> Get(s.account_data, "notificationCount", 0),
             camera_count |-> Len(s.cameras_data),
             cameras |-> s.cameras_data,
             accruals |-> Get(s.account_data, "items", <<>>),
             communal_requests |-> s.communal_requests,
             meters |-> s.meters_history]))))

\* the end of one pass of the loop over accounts_data
LegacyFinishAccount(s) ==
    With(LegacyRecord(s.accounts_data[s.n], s), LAMBDA record :
         IF ~record.ok THEN LegacyRaise(s, "record", record.err)
         ELSE LegacyNextAccount(
                  [s EXCEPT !.detailed_data = DictSet(s.detailed_data, s.account_id,
                                                      record.value)],
                  s.n + 1))

\* tasks = [...]; await asyncio.gather(*tasks): each task runs up to its
\* session.get; the task of a camera without a videoUrl is over at once,
\* and with no task left the pass goes on
GatherStart(s) ==
    With([s EXCEPT
             !.pc = "gather",
             !.cameras_data =
                 [i \in 1..Len(s.cameras_data) |->
                     IF Truthy(Get(s.cameras_data[i], "videoUrl", <<>>)) THEN s.cameras_data[i]
                     ELSE get_camera_stream_url(s.cameras_data[i], StreamWire("url")).value],
             !.pending = {i \in 1..Len(s.cameras_data) :
                             Truthy(Get(s.cameras_data[i], "videoUrl", <<>>))}],
         LAMBDA started_ : IF started_.pending = {} THEN LegacyFinishAccount(started_)
                           ELSE started_)

\* for history_item in history_items: the reading and its date are
\* subscripted
RECURSIVE LegacyHistoryItems(_, _)
LegacyHistoryItems(items, dict) ==
    IF items = <<>> THEN Ok(dict)
    ELSE With(Then(Item(Head(items), "value1"), LAMBDA value1 : Item(value1, "value")),
              LAMBDA value :
                  IF ~value.ok THEN value
                  ELSE IF ~Truthy(value.value) THEN LegacyHistoryItems(Tail(items), dict)
                  ELSE Then(Item(Head(items), "dateList"), LAMBDA date_str :
                       Then(ParseFloat(ReplaceComma(value.value)), LAMBDA f :
                            LegacyHistoryItems(Tail(items), DictSet(dict, date_str, f)))))

\* history_dict of a meter: the history items, then the meter's
\* lastMeterValue
LegacyHistoryDict(history_items, meter) ==
    IF IsNoneList(history_items) THEN NOT_ITERABLE
    ELSE Then(LegacyHistoryItems(history_items, <<>>), LAMBDA dict :
         Then(DictGet(Get(meter, "lastMeterValue", EmptyDict), "listValue", <<>>),
              LAMBDA last_value_raw :
         Then(DictGet(Get(meter, "lastMeterValue", EmptyDict), "dateList", <<>>),
              LAMBDA last_date :
              IF Truthy(last_value_raw) /\ Truthy(last_date)
              THEN Then(ParseFloat(ReplaceComma(last_value_raw)), LAMBDA f :
                        Ok(DictSet(dict, last_date, f)))
              ELSE Ok(dict))))

\* sorted(..., key=lambda x: datetime.strptime(x[0], "%d.%m.%Y")): the
\* module imports timedelta alone, so the key of the first entry raises
LegacySortedHistory(pairs) ==
    IF pairs = <<>> THEN Ok(<<>>)
    ELSE Raise("NameError", <<"name 'datetime' is not defined">>)

\* meters_history[meter_id] = {...}: the values in the order the dict
\* display computes them
LegacyMeterRecord(meter, history_dict) ==
    Then(Then(Item(meter, "objectId"), LAMBDA objectId : Item(objectId, "title")),
         LAMBDA title :
    Then(Then(Item(meter, "type"), LAMBDA type : Item(type, "id")), LAMBDA type_id :
    Then(Then(Item(meter, "type"), LAMBDA type : Item(type, "title")), LAMBDA type_title :
    Then(LegacySortedHistory(history_dict), LAMBDA history :
         Ok([title |-> title, type_id |-> type_id, type_title |-> type_title,
             history |-> history])))))

\* for meter in meters_data: meter_id = meter["objectId"]["id"] and the
\* await of its history; after the last meter, the stream resolution
LegacyNextMeter(s, k) ==
    IF k > Len(s.meters_data) THEN GatherStart(s)
    ELSE With(Then(Item(s.meters_data[k], "objectId"), LAMBDA objectId : Item(objectId, "id")),
              LAMBDA meter_id :
                  IF ~meter_id.ok THEN LegacyRaise(s, "loop", meter_id.err)
                  ELSE LegacyAwait([s EXCEPT !.k = k], "get_meter_history", meter_id.value))

\* a meter that has no reading yet
NewMeter(a, k) ==
    [objectId |-> [id |-> MeterId(a, k), title |-> <<"HW">>],
     type |-> [id |-> "HotWater", title |-> <<"hot">>]]

\* the meter lists the upstream can give for account a: the one of the
\* revision, one of two meters without a reading, and none
LegacyMeters(a) ==
    {UpstreamMeters(gen, a), [items |-> <<NewMeter(a, 1), NewMeter(a, 2)>>], [items |-> <<>>]}

\* the replies of the meter-history request: those of HistoryWire, and a
\* history that has no item
LegacyHistoryKinds == ReplyKinds \cup {"bad_date", "no_items"}
LegacyHistoryWire(kind, m) ==
    IF kind = "no_items" THEN Wire("ok", [items |-> <<>>]) ELSE HistoryWire(kind, gen, m)

\* DataUpdateCoordinator calls _async_update_data, which enters
\* _authenticate: attempt = 1 and the first authenticate() call.  The tasks
\* earlier refreshes left behind may still wait for their replies; a
\* behaviour has at most MaxLeft refreshes that left tasks behind.
LegacyRefresh ==
    /\ stream.pc = "idle"
    /\ Len(stream.left) < MaxLeft
    /\ stream' = [stream EXCEPT !.pc = "authenticate", !.attempt = 1]
    /\ UNCHANGED <<access_token, refresh_token, data, task, gen, faults, started, calc, entities, install>>

\* one pass of the while loop of _authenticate (lines 103-124, the loop of
\* the current version) from the reply of authenticate() on; an exception
\* that leaves _authenticate is caught by _async_update_data.  attempt is
\* a local of _authenticate: it is gone when _authenticate is left
LegacyAuthReply ==
    /\ stream.pc = "authenticate"
    /\ \E kind \in ReplyKinds, full \in BOOLEAN :
       \E next \in {AuthStep([IdleTask EXCEPT !.attempt = stream.attempt], "scheduled",
                             Wire(kind, AuthPayload(1, full)),
                             stream.access_token, stream.refresh_token)} :
       \E stored \in {[stream EXCEPT !.access_token = next.access_token,
                                     !.refresh_token = next.refresh_token]} :
       \E after \in {[stored EXCEPT !.attempt = 0]} :
         stream' = IF next.task.pc = "get_accounts"
                   THEN LegacyAwait(after, "get_accounts", 0)
                   ELSE IF next.task.pc = "sleep" THEN [stored EXCEPT !.pc = "sleep"]
                   ELSE LegacyRaise(after, "authenticate", next.task.outcome.exc.cause)
    /\ UNCHANGED <<access_token, refresh_token, data, task, gen, faults, started, calc, entities, install>>

\* asyncio.sleep(15) is over: attempt += 1 and the next authenticate() call
LegacySleepDone ==
    /\ stream.pc = "sleep"
    /\ stream' = [stream EXCEPT !.pc = "authenticate", !.attempt = @ + 1]
    /\ UNCHANGED <<access_token, refresh_token, data, task, gen, faults, started, calc, entities, install>>

LegacyAccountsReply ==
    /\ stream.pc = "get_accounts"
    /\ \E kind \in ReplyKinds :
       \E r \in {get_accounts(Wire(kind, UpstreamAccounts(gen)))} :
         stream' = IF ~r.ok THEN LegacyRaise(stream, stream.pc, r.err)
                   ELSE IF IsNoneList(r.value)
                   THEN LegacyRaise(stream, "loop", NOT_ITERABLE.err)
                   ELSE LegacyNextAccount([stream EXCEPT !.accounts_data = r.value,
                                                         !.detailed_data = EmptyDict], 1)
    /\ UNCHANGED <<access_token, refresh_token, data, task, gen, faults, started, calc, entities, install>>

LegacyAccountDataReply ==
    /\ stream.pc = "get_account_data"
    /\ \E kind \in ReplyKinds :
       \E r \in {get_account_data(Wire(kind, UpstreamAccountData(gen, stream.account_id)))} :
         stream' = IF ~r.ok THEN LegacyRaise(stream, stream.pc, r.err)
                   ELSE LegacyAwait([stream EXCEPT !.account_data = r.value],
                                    "get_communal_requests", stream.account_id)
    /\ UNCHANGED <<access_token, refresh_token, data, task, gen, faults, started, calc, entities, install>>

LegacyRequestsReply ==
    /\ stream.pc = "get_communal_requests"
    /\ \E kind \in ReplyKinds :
       \E r \in {get_communal_requests(Wire(kind, UpstreamRequests(gen, stream.account_id)))} :
         stream' = IF ~r.ok THEN LegacyRaise(stream, stream.pc, r.err)
                   ELSE LegacyAwait([stream EXCEPT !.communal_requests = r.value],
                                    "get_cameras", stream.account_id)
    /\ UNCHANGED <<access_token, refresh_token, data, task, gen, faults, started, calc, entities, install>>

\* the camera list of the account: any of its cameras may have a videoUrl
LegacyCamerasReply ==
    /\ stream.pc = "get_cameras"
    /\ \E kind \in ReplyKinds, with_url \in SUBSET (1..MaxCameras) :
       \E r \in {get_cameras(Wire(kind, [cameras |-> CamerasData(with_url)]))} :
         stream' = IF ~r.ok THEN LegacyRaise(stream, stream.pc, r.err)
                   ELSE LegacyAwait([stream EXCEPT
                                        !.cameras_data = r.value,
                                        !.got = [i \in 1..Len(r.value) |-> "none"]],
                                    "get_meters", stream.account_id)
    /\ UNCHANGED <<access_token, refresh_token, data, task, gen, faults, started, calc, entities, install>>

LegacyMetersReply ==
    /\ stream.pc = "get_meters"
    /\ \E kind \in ReplyKinds, meters \in LegacyMeters(stream.account_id) :
       \E r \in {get_meters(Wire(kind, meters))} :
         stream' = IF ~r.ok THEN LegacyRaise(stream, stream.pc, r.err)
                   ELSE IF IsNoneList(r.value)
                   THEN LegacyRaise(stream, "loop", NOT_ITERABLE.err)
                   ELSE LegacyNextMeter([stream EXCEPT !.meters_data = r.value,
                                                       !.meters_history = EmptyDict], 1)
    /\ UNCHANGED <<access_token, refresh_token, data, task, gen, faults, started, calc, entities, install>>

\* the body of the loop over meters_data after get_meter_history
LegacyMeterHistoryReply ==
    /\ stream.pc = "get_meter_history"
    /\ \E kind \in LegacyHistoryKinds :
       \E meter \in {stream.meters_data[stream.k]} :
       \E r \in {get_meter_history(LegacyHistoryWire(kind, meter.objectId.id))} :
       \E record \in {Then(r, LAMBDA history_items :
                      Then(LegacyHistoryDict(history_items, meter), LAMBDA history_dict :
                           LegacyMeterRecord(meter, history_dict)))} :
         stream' = IF ~r.ok THEN LegacyRaise(stream, stream.pc, r.err)
                   ELSE IF ~record.ok THEN LegacyRaise(stream, "loop", record.err)
                   ELSE LegacyNextMeter(
                            [stream EXCEPT !.meters_history =
                                DictSet(@, meter.objectId.id, record.value)],
                            stream.k + 1)
    /\ UNCHANGED <<access_token, refresh_token, data, task, gen, faults, started, calc, entities, install>>

\* The request of camera i is answered and its task runs to its end.  With
\* g = 0 the task belongs to the gather of the refresh that runs (or that
\* has just ended and whose caller has not gone on yet): an exception of the
\* task leaves gather at once and _async_update_data turns it into
\* UpdateFailed, the other tasks go on; when the last task is over without
\* an exception the pass of the loop goes on.  With g > 0 the task was left
\* behind by an earlier refresh: it writes to the camera list of that
\* refresh, and nobody awaits its exception.
StreamReply(g, i) ==
    /\ g <= Len(stream.left)
    /\ i \in (IF g = 0 THEN stream.pending ELSE stream.left[g].pending)
    /\ \E kind \in StreamKinds :
       \E owner \in {IF g = 0 THEN stream ELSE stream.left[g]} :
       \E r \in {get_camera_stream_url(owner.cameras_data[i], StreamWire(kind))} :
       \E answered \in {[owner EXCEPT
                            !.cameras_data = IF r.ok THEN [@ EXCEPT ![i] = r.value] ELSE @,
                            !.pending = @ \ {i},
                            !.got = [@ EXCEPT ![i] = kind]]} :
         stream' = IF g > 0 THEN [stream EXCEPT !.left[g] = answered]
                   ELSE IF stream.pc # "gather" THEN answered
                   ELSE IF ~r.ok THEN LegacyRaise(answered, "gather", r.err)
                   ELSE IF answered.pending = {} THEN LegacyFinishAccount(answered)
                   ELSE answered
    /\ UNCHANGED <<access_token, refresh_token, data, task, gen, faults, started, calc, entities, install>>

\* raise UpdateFailed / return detailed_data: _async_update_data is over and
\* its caller goes on at once, the coordinator keeps its tokens.  The tasks
\* of a gather that an exception has left go on with their camera list.
LegacyReturn ==
    /\ stream.pc = "returned"
    /\ stream' = [IdleStream EXCEPT
                     !.access_token = stream.access_token,
                     !.refresh_token = stream.refresh_token,
                     !.left = IF stream.pending = {} THEN stream.left
                              ELSE Append(stream.left,
                                          [cameras_data |-> stream.cameras_data,
                                           pending |-> stream.pending,
                                           got |-> stream.got])]
    /\ UNCHANGED <<access_token, refresh_token, data, task, gen, faults, started, calc, entities, install>>

NextStream ==
    \/ LegacyRefresh
    \/ LegacyAuthReply
    \/ LegacySleepDone
    \/ LegacyAccountsReply
    \/ LegacyAccountDataReply
    \/ LegacyRequestsReply
    \/ LegacyCamerasReply
    \/ LegacyMetersReply
    \/ LegacyMeterHistoryReply
    \/ \E g \in 0..MaxLeft, i \in 1..MaxCameras : StreamReply(g, i)
    \/ LegacyReturn

SpecStream == Init /\ [][NextStream]_vars

Next ==
    \/ \E p \in Refreshers :
         \/ Trigger(p)
         \/ AuthReply(p)
         \/ SleepDone(p)
         \/ AccountsReply(p)
         \/ AccountDataReply(p)
         \/ CommunalRequestsReply(p)
         \/ MetersReply(p)
         \/ MeterHistoryReply(p)
         \/ CamerasReply(p)
         \/ MainPassReply(p)
         \/ GuestPassesReply(p)
         \/ Return(p)
    \/ UpstreamChange

Spec == Init /\ [][Next]_vars

\* the reply, or the error, of the call refresh p awaits
Reply(p) ==
    \/ AuthReply(p)
    \/ AccountsReply(p)
    \/ AccountDataReply(p)
    \/ CommunalRequestsReply(p)
    \/ MetersReply(p)
    \/ MeterHistoryReply(p)
    \/ CamerasReply(p)
    \/ MainPassReply(p)
    \/ GuestPassesReply(p)

\* refresh p awaits a call of the API client: the condition under which
\* Reply(p) is enabled, each call having the reply "ok" among its replies
Awaiting(p) == task[p].pc \notin {"idle", "sleep", "returned"}

\* the refreshes of a behaviour of SpecFair
LiveRefreshes == 2

\* a refresh starts, as in Trigger
TriggerLive(p) ==
    /\ started < LiveRefreshes
    /\ Trigger(p)

NextFair ==
    \/ \E p \in Refreshers :
         \/ TriggerLive(p)
         \/ Reply(p)
         \/ SleepDone(p)
         \/ Return(p)
    \/ UpstreamChange

\* Every awaited call returns or fails (the requests carry timeout=30), a
\* sleep ends, and the event loop runs a coroutine whose await is over.
\* The fairness of Reply(p) is weak fairness with its enabling condition
\* written out: WF_vars(Reply(p)) is []<>~ENABLED <<Reply(p)>>_vars \/
\* []<><<Reply(p)>>_vars, and ENABLED <<Reply(p)>>_vars is Awaiting(p).
Fairness(p) ==
    /\ WF_vars(SleepDone(p))
    /\ WF_vars(Return(p))
    /\ ([]<>~Awaiting(p) \/ []<><<Reply(p)>>_vars)

SpecFair == Init /\ [][NextFair]_vars /\ \A p \in Refreshers : Fairness(p)

(***************************************************************************)
(* Properties.                                                             *)
(***************************************************************************)
InFlight(p) == task[p].pc \notin {"idle", "returned"}
Raised(t) == t.pc = "returned" /\ t.outcome.kind = "raised"
Succeeded(t) == t.pc = "returned" /\ t.outcome.kind = "ok"
Count(trace, tag) == Cardinality({i \in 1..Len(trace) : trace[i][1] = tag})
Includes(msg, part) ==
    \E i \in 1..(Len(msg) - Len(part) + 1) : SubSeq(msg, i, i + Len(part) - 1) = part
Called(t, op, target) == \E i \in 1..Len(t.calls) : t.calls[i] = <<op, target>>
LastCall(t) == t.calls[Len(t.calls)]
\* refresh p gets, in this step, a failed reply of the operation it awaits
FailedReply(p, ops) ==
    /\ task[p].pc \in ops
    /\ task'[p] # task[p]
    /\ faults' = faults + 1

\* C1: when a refresh has failed, the published snapshot is the one that was
\* published before that refresh started.
C1_SnapshotAsBeforeFailedRefresh ==
    \A p \in Refreshers : Raised(task[p]) => data = task[p].before

\* the trace of _authenticate when every attempt has failed: five attempts,
\* a sleep of 15 seconds after each of the first four
FiveFailedAttempts ==
    [i \in 1..14 |-> CASE i % 3 = 1 -> <<"attempt", (i + 2) \div 3>>
                       [] i % 3 = 2 -> <<"failed", (i + 1) \div 3>>
                       [] OTHER -> <<"sleep", 15>>]
AuthExhausted(t) ==
    Raised(t) /\ t.outcome.exc.cause.type = "ConfigEntryAuthFailed"

\* C2: there is never a sixth authentication attempt; authentication ends
\* with its fatal error exactly when five attempts have failed, and then it
\* has made five attempts and slept 15 seconds after each of the first four
\* and not after the fifth.
C2_FiveAttemptsThenFatal ==
    \A p \in Refreshers :
        LET t == task[p]
        IN  /\ t.attempt <= 5
            /\ Count(t.trace, "attempt") <= 5
            /\ (Count(t.trace, "failed") = 5) <=> AuthExhausted(t)
            /\ AuthExhausted(t) => t.trace = FiveFailedAttempts
C2_Witness ==
    \E p \in Refreshers : AuthExhausted(task[p])

\* C3: when authentication succeeds on attempt k, k attempts were made, k-1
\* of them failed and each was followed by one sleep, no error is raised,
\* and the access token is the one the k-th attempt returned.
C3_SuccessOnAttemptK ==
    [][\A p \in Refreshers :
          (task[p].pc = "authenticate" /\ task'[p].pc = "get_accounts") =>
             LET t == task'[p]
                 k == t.attempt
             IN  /\ Count(t.trace, "attempt") = k
                 /\ Count(t.trace, "failed") = k - 1
                 /\ Count(t.trace, "sleep") = k - 1
                 /\ t.trace[Len(t.trace)] = <<"ok", k>>
                 /\ t.outcome = NoOutcome
                 /\ access_token' = t.auth_data.accessToken]_vars
C3_Witness ==
    \E p \in Refreshers :
        /\ task[p].pc = "get_accounts"
        /\ task[p].attempt = 3
        /\ access_token = task[p].auth_data.accessToken

\* C4: a refresh whose authentication has failed five times ends with the
\* re-authentication error, not with the update-failed error.
C4_ExhaustionIsAuthFailure ==
    \A p \in Refreshers :
        (Raised(task[p]) /\ Count(task[p].trace, "failed") = 5)
            => task[p].outcome.exc.type = "ConfigEntryAuthFailed"

\* C5: no two refresh operations are in progress at the same time.
C5_OneRefreshAtATime ==
    \A p, q \in Refreshers : (InFlight(p) /\ InFlight(q)) => p = q

\* C6: the sensors-only refresh never calls the camera list, the main-pass
\* lookup or the guest-pass lookup, whether it is running, has succeeded or
\* has failed.
C6_SensorsOnlyCalls ==
    \A f \in ForcedRefreshers :
        \A i \in 1..Len(task[f].calls) :
            task[f].calls[i][1] \notin {"get_cameras", "main_pass", "guest_passes"}
C6_Witness ==
    /\ Succeeded(task["forced"])
    /\ Called(task["forced"], "get_meters", NumAccounts)

FailFastOps == {"get_account_data", "get_communal_requests", "get_meters",
                "get_meter_history"}

\* C7: a failed reply of the account-detail, requests, meter-list or
\* meter-history operation, for any account, ends the refresh with
\* UpdateFailed whose message includes the message of the error that
\* caused it, and the published snapshot stays as it was.
C7_FetchFailureAborts ==
    [][\A p \in Refreshers :
          FailedReply(p, FailFastOps) =>
             /\ Raised(task'[p])
             /\ task'[p].outcome.exc.type = "UpdateFailed"
             /\ task'[p].outcome.exc.cause.msg # <<>>
             /\ Includes(task'[p].outcome.exc.msg, task'[p].outcome.exc.cause.msg)
             /\ data' = data]_vars
C7_Witness ==
    \E p \in Refreshers :
        /\ Raised(task[p])
        /\ Called(task[p], "get_meters", 1)
        /\ LastCall(task[p]) = <<"get_meters", 2>>
        /\ data # NoData

\* C8: a failed reply of the camera-list operation does not end the refresh
\* with an error.
C8_CameraFailureDegrades ==
    [][\A p \in Refreshers :
          FailedReply(p, {"get_cameras"}) => ~Raised(task'[p])]_vars

\* the outcomes of the stream-URL request the resolution has to absorb
StreamFailures == {"array", "bad_json", "bad_content_type", "http_error", "conn_error",
                   "timeout"}

\* C9: after a stream-URL request that came back with a non-200 status, an
\* unparsable or unexpectedly shaped body, a connection error or a timeout,
\* the camera's stream URL is the empty string, its other fields are
\* unchanged, and the refresh has not been aborted.
C9_StreamFailureDegrades ==
    /\ ~(stream.outcome.kind = "raised" /\ stream.raised_in = "gather")
    /\ \A i \in 1..Len(stream.got) :
          stream.got[i] \in StreamFailures =>
              stream.cameras_data[i] = Put(CamerasData({i})[i], "stream_url", "")

\* the account records a refresh has assembled
Assembled(t) == IF t.pc = "returned" THEN t.outcome.result ELSE t.detailed_data

\* C10: a failed reply of the main-pass or of the guest-pass lookup raises
\* nothing and gives empty pass data; what was fetched for the account and
\* the records of the other accounts stay as they are, and a refresh that
\* ends with it publishes its snapshot.
C10_PassFailureDegrades ==
    [][\A p \in Refreshers :
          FailedReply(p, {"main_pass", "guest_passes"}) =>
             LET t == task[p]
                 u == task'[p]
                 a == t.fr.account_id
             IN  /\ ~Raised(u)
                 /\ IF t.pc = "main_pass"
                    THEN /\ u.pc = "guest_passes"
                         /\ u.fr = [t.fr EXCEPT !.main_pass = EmptyDict]
                         /\ u.detailed_data = t.detailed_data
                    ELSE /\ a \in Keys(Assembled(u))
                         /\ Value(Assembled(u), a).guest_passes = EmptyDict
                         /\ Value(Assembled(u), a).main_pass = t.fr.main_pass
                         /\ Value(Assembled(u), a).cameras = t.fr.cameras
                         /\ Value(Assembled(u), a).meters = t.fr.meters_history
                         /\ Value(Assembled(u), a).communal_requests = t.fr.communal_requests
                         /\ Value(Assembled(u), a).payment_status = t.fr.payment_status
                         /\ \A b \in Keys(t.detailed_data) :
                               b # a => Value(Assembled(u), b) = Value(t.detailed_data, b)
                         /\ u.pc = "returned" => data' = Snapshot(u.outcome.result)]_vars
C10_Witness ==
    /\ data # NoData
    /\ \E a \in Keys(data.items) :
          /\ Value(data.items, a).main_pass = EmptyDict
          /\ Value(data.items, a).guest_passes # EmptyDict
          /\ Value(data.items, a).cameras # <<>>
          /\ Value(data.items, a).meters # EmptyDict

\* C11: in every published snapshot every camera record carries a stream URL
\* field.
C11_CamerasCarryStreamUrl ==
    data # NoData =>
        \A a \in Keys(data.items) :
            \A i \in 1..Len(Value(data.items, a).cameras) :
                Has(Value(data.items, a).cameras[i], "stream_url")

(***************************************************************************)
(* The merge and sort of one meter's history, applied on their own to      *)
(* every list of at most MaxItems history items and every optional         *)
(* lastMeterValue over a few date strings and readings.                    *)
(***************************************************************************)
D_0101 == <<"0", "1", ".", "0", "1", ".", "2", "0", "2", "4">>
D_11 == <<"1", ".", "1", ".", "2", "0", "2", "4">>
D_0102 == <<"0", "1", ".", "0", "2", ".", "2", "0", "2", "4">>
D_ISO == <<"2", "0", "2", "4", "-", "0", "1", "-", "0", "1">>
V_105 == <<"1", "0", ",", "5">>
V_120 == <<"1", "2", ",", "0">>

HistoryDates == {D_0101, D_11, D_0102, D_ISO}
HistoryItemSet ==
    [dateList : HistoryDates, value1 : [value : {V_105, V_120, <<>>}]]
LastValueSet ==
    {EmptyDict} \cup [dateList : HistoryDates, listValue : {V_105, V_120}]
\* readings in the other notations float() reads, and one it does not
V_1E3 == <<"1", "e", "3">>
V_15E_1 == <<"1", ",", "5", "e", "-", "1">>
V_INF == <<"i", "n", "f">>
V_FF7 == <<"\f", "7">>
V_1_0 == <<"1", "_", "0">>
V_ABC == <<"a", "b", "c">>
NotedValues == {V_1E3, V_15E_1, V_INF, V_FF7, V_1_0}

\* history items with such a reading, with null or nothing for a reading, a
\* date or value1, and a null item
OddItems ==
    [dateList : {D_0101}, value1 : [value : NotedValues \cup {V_ABC, <<NONE>>}]]
        \cup {[dateList |-> D_0101, value1 |-> NoneDict], [dateList |-> D_0101],
               [dateList |-> D_0101, value1 |-> EmptyDict],
               [dateList |-> <<NONE>>, value1 |-> [value |-> V_105]],
               [value1 |-> [value |-> V_105]], NoneDict}
OddLastValues ==
    {EmptyDict, NoneDict, [dateList |-> D_0102], [dateList |-> D_0102, listValue |-> <<NONE>>],
     [dateList |-> D_0102, listValue |-> V_1E3], [dateList |-> D_0101, listValue |-> V_ABC]}

HistoryInput(items, meter) ==
    [fn |-> "history", pc |-> "input", history_items |-> items, meter |-> meter,
     history_dict |-> NoOutcome, history |-> NoOutcome, current |-> NoOutcome]

HistoryInputs ==
    {HistoryInput(items, IF last = EmptyDict THEN [objectId |-> [id |-> 1]]
                         ELSE [objectId |-> [id |-> 1], lastMeterValue |-> last]) :
        items \in UNION {[1..n -> HistoryItemSet] : n \in 0..MaxItems},
        last \in LastValueSet}
    \cup
    {HistoryInput(items, IF last = EmptyDict THEN [objectId |-> [id |-> 1]]
                         ELSE [objectId |-> [id |-> 1], lastMeterValue |-> last]) :
        items \in {NoneList}
                    \cup {<<x>> : x \in OddItems}
                    \cup {<<[dateList |-> D_0102, value1 |-> [value |-> V_120]], x>> :
                             x \in OddItems},
        last \in OddLastValues}

\* 0.0
ZERO == [m |-> 0, e |-> 0]

\* a variant that takes the first element of the history, which C27 excludes
first_value(history) ==
    IF history # <<>> /\ ~IsNoneList(history) THEN history[1][2] ELSE ZERO

\* current_value = history[-1][1] if history else 0.0 (None is no history)
current_value(history) ==
    IF history # <<>> /\ ~IsNoneList(history) THEN history[Len(history)][2] ELSE ZERO

InitHistory ==
    /\ InitCoordinator
    /\ calc \in HistoryInputs

\* history_dict is filled from history_items and lastMeterValue
MergeHistory ==
    /\ calc.fn = "history"
    /\ calc.pc = "input"
    /\ \E dict \in {HistoryDict(calc.history_items, calc.meter)} :
         calc' = [calc EXCEPT !.pc = IF dict.ok THEN "merged" ELSE "raised",
                              !.history_dict = dict]
    /\ UNCHANGED <<access_token, refresh_token, data, task, gen, faults, started, stream, entities, install>>

\* "history": sorted(history_dict.items(), key=...)
SortHistory ==
    /\ calc.fn = "history"
    /\ calc.pc = "merged"
    /\ \E history \in {SortedHistory(calc.history_dict.value)} :
         calc' = [calc EXCEPT !.pc = IF history.ok THEN "sorted" ELSE "raised",
                              !.history = history]
    /\ UNCHANGED <<access_token, refresh_token, data, task, gen, faults, started, stream, entities, install>>

\* the meter sensor is built from the record: current_value = history[-1][1]
\* if history else 0.0
TakeCurrent ==
    /\ calc.fn = "history"
    /\ calc.pc = "sorted"
    /\ \E history \in {calc.history.value} :
         calc' = [calc EXCEPT !.pc = "taken", !.current = current_value(history)]
    /\ UNCHANGED <<access_token, refresh_token, data, task, gen, faults, started, stream, entities, install>>

NextHistory ==
    \/ MergeHistory
    \/ SortHistory
    \/ TakeCurrent

SpecHistory == InitHistory /\ [][NextHistory]_vars

\* what the date strings and the readings of HistoryInputs denote
CalendarDay(text) ==
    CASE text = D_0101 -> <<2024, 1, 1>>
      [] text = D_11 -> <<2024, 1, 1>>
      [] text = D_0102 -> <<2024, 2, 1>>
Reading(text) ==
    CASE text = V_105 -> [m |-> 105, e |-> 1]
      [] text = V_120 -> [m |-> 12, e |-> 0]
      [] text = V_1E3 -> [m |-> 1000, e |-> 0]
      [] text = V_15E_1 -> [m |-> 15, e |-> 2]
      [] text = V_INF -> [float |-> "inf"]
      [] text = V_FF7 -> [m |-> 7, e |-> 0]
      [] text = V_1_0 -> [m |-> 10, e |-> 0]
DayBefore(a, b) ==
    \/ a[1] < b[1]
    \/ a[1] = b[1] /\ a[2] < b[2]
    \/ a[1] = b[1] /\ a[2] = b[2] /\ a[3] < b[3]
\* the history items that have a reading and a date
Readable(items) ==
    {i \in 1..Len(items) :
        /\ "value1" \in DOMAIN items[i] /\ "dateList" \in DOMAIN items[i]
        /\ items[i].value1 # EmptyDict
        /\ items[i].value1.value \notin {<<>>, <<NONE>>}
        /\ items[i].dateList \notin {<<>>, <<NONE>>}}
\* the meter has a last reading with a value and a date
HasLast(meter) ==
    /\ "lastMeterValue" \in DOMAIN meter
    /\ "listValue" \in DOMAIN meter.lastMeterValue
    /\ meter.lastMeterValue.listValue # <<NONE>>

\* C12: the sorted history has one entry for each date string of the history
\* items and of the last reading; its value is the last reading's when that
\* has the same date string and else the one of the last history item with
\* the date string; and the dates of the entries are non-decreasing.
C12_HistoryIsSortedMerge ==
    (calc.fn = "history" /\ calc.pc = "sorted") =>
        LET items == calc.history_items
            meter == calc.meter
            h == calc.history.value
            of(date) == {i \in Readable(items) : items[i].dateList = date}
        IN  /\ {h[i][1] : i \in 1..Len(h)} =
                  {items[i].dateList : i \in Readable(items)}
                  \cup (IF HasLast(meter) THEN {meter.lastMeterValue.dateList} ELSE {})
            /\ \A i, j \in 1..Len(h) : i # j => h[i][1] # h[j][1]
            /\ \A i \in 1..Len(h) :
                  h[i][2] = IF HasLast(meter) /\ meter.lastMeterValue.dateList = h[i][1]
                            THEN Reading(meter.lastMeterValue.listValue)
                            ELSE Reading(items[CHOOSE x \in of(h[i][1]) :
                                                  \A y \in of(h[i][1]) : y <= x].value1.value)
            /\ \A i, j \in 1..Len(h) :
                  i < j => ~DayBefore(CalendarDay(h[j][1]), CalendarDay(h[i][1]))
C12_Witness ==
    /\ calc.fn = "history"
    /\ calc.pc = "sorted"
    /\ calc.history_items = <<[dateList |-> D_0102, value1 |-> [value |-> V_105]],
                              [dateList |-> D_0101, value1 |-> [value |-> V_105]]>>
    /\ HasLast(calc.meter)
    /\ calc.meter.lastMeterValue = [dateList |-> D_0102, listValue |-> V_120]
    /\ calc.history.value = <<<<D_0101, [m |-> 105, e |-> 1]>>, <<D_0102, [m |-> 12, e |-> 0]>>>>

\* C13: the entries of a sorted history are strictly ascending by calendar
\* day: no two of them denote the same day.
C13_HistoryStrictlyAscending ==
    (calc.fn = "history" /\ calc.pc = "sorted") =>
        \A i, j \in 1..Len(calc.history.value) :
            i < j => DayBefore(CalendarDay(calc.history.value[i][1]),
                               CalendarDay(calc.history.value[j][1]))


\* the exception types a failed reply raises in the API client
ApiClientErrors == {"ClientError", "TimeoutError", "KeyError"}

\* refresh p gets, in this step, the meter history with the unparsable date:
\* a reply counted as a fault that the API client returned without an error
UnparsableHistoryReply(p) ==
    /\ FailedReply(p, {"get_meter_history"})
    /\ ~(/\ Raised(task'[p])
         /\ task'[p].outcome.exc.cause.type \in ApiClientErrors)

\* C14: a meter history whose merged entries hold a date string that does not
\* parse, even when it is the only entry, ends the refresh with UpdateFailed
\* caused by the ValueError of the date parser, and no snapshot is published.
C14_UnparsableDateAborts ==
    [][\A p \in Refreshers :
          UnparsableHistoryReply(p) =>
             /\ Raised(task'[p])
             /\ task'[p].outcome.exc.type = "UpdateFailed"
             /\ task'[p].outcome.exc.cause.type = "ValueError"
             /\ data' = data]_vars
\* the history of the meter of account 2, which has no last reading, is the
\* one malformed entry: the refresh fails and the earlier snapshot stays
C14_Witness ==
    \E p \in Refreshers :
        /\ Raised(task[p])
        /\ task[p].outcome.exc.cause.type = "ValueError"
        /\ LastCall(task[p]) = <<"get_meter_history", MeterId(2, 1)>>
        /\ ~Has(MeterEntry(2, 1), "lastMeterValue")
        /\ data # NoData
        /\ data = task[p].before


\* the place of an operation in the order of async_fetch_account_data
OpRank(op) ==
    CASE op = "get_accounts" -> 0
      [] op = "get_account_data" -> 1
      [] op = "get_communal_requests" -> 2
      [] op = "get_meters" -> 3
      [] op = "get_meter_history" -> 4
      [] op = "get_cameras" -> 5
      [] op = "main_pass" -> 6
      [] op = "guest_passes" -> 7

\* the account a call is made for (a meter's id names its account)
CallAccount(call) == IF call[1] = "get_meter_history" THEN call[2] \div 10 ELSE call[2]

\* the ranks that may follow rank r in refresh p: after the meters the full
\* refresh goes on with the camera list, the sensors-only refresh with the
\* next account
RanksAfter(p, r) ==
    CASE r = 0 -> {1}
      [] r = 1 -> {2}
      [] r = 2 -> {3}
      [] r \in {3, 4} -> {4} \cup (IF p = "scheduled" THEN {5} ELSE {1})
      [] r = 5 -> {6}
      [] r = 6 -> {7}
      [] r = 7 -> {1}

\* call y may be issued next after call x
Follows(p, x, y) ==
    /\ OpRank(y[1]) \in RanksAfter(p, OpRank(x[1]))
    /\ OpRank(y[1]) # 1 => CallAccount(y) = CallAccount(x)
    /\ (OpRank(x[1]) = 4 /\ OpRank(y[1]) = 4) => y[2] > x[2]

\* the calls of refresh p follow the fixed order, starting with the account
\* list; an account is begun only after the account before it, and never
\* returned to
FixedOrder(p, calls) ==
    /\ \A i \in 1..(Len(calls) - 1) : Follows(p, calls[i], calls[i + 1])
    /\ calls # <<>> => calls[1] = <<"get_accounts", 0>>
    /\ \A i, j \in 2..Len(calls) :
          (i < j /\ OpRank(calls[j][1]) = 1) => CallAccount(calls[i]) # calls[j][2]

\* the same of the refreshes of version 1.1.2 alone
C15_FixedOrderCurrent ==
    \A p \in Refreshers :
        /\ FixedOrder(p, task[p].calls)
        /\ (InFlight(p) /\ task[p].calls # <<>>) => task[p].pc = LastCall(task[p])[1]

\* C15: the calls of a refresh follow the fixed order account detail,
\* communal requests, meter list, the history of each listed meter in turn,
\* then in the full refresh camera list, main pass, guest passes; the one call
\* awaited is the last one issued; an account is begun only after the
\* account before it, and never returned to; in the refresh of either
\* version.
C15_FixedOrder ==
    /\ C15_FixedOrderCurrent
    /\ FixedOrder("scheduled", stream.calls)
    /\ stream.pc \notin {"idle", "authenticate", "sleep", "gather", "returned"}
           => stream.pc = LastCall(stream)[1]

\* the refresh of version 1.0.3 has asked for the camera list of an account
\* before its meter list
C15_CamerasBeforeMeters ==
    /\ Len(stream.calls) >= 5
    /\ SubSeq(stream.calls, 1, 5) =
          <<<<"get_accounts", 0>>, <<"get_account_data", 1>>, <<"get_communal_requests", 1>>,
            <<"get_cameras", 1>>, <<"get_meters", 1>>>>

\* a full refresh of two accounts, the first with two meters, has ended
C15_Witness ==
    /\ Succeeded(task["scheduled"])
    /\ task["scheduled"].calls =
          <<<<"get_accounts", 0>>,
            <<"get_account_data", 1>>, <<"get_communal_requests", 1>>, <<"get_meters", 1>>,
            <<"get_meter_history", 11>>, <<"get_meter_history", 12>>,
            <<"get_cameras", 1>>, <<"main_pass", 1>>, <<"guest_passes", 1>>,
            <<"get_account_data", 2>>, <<"get_communal_requests", 2>>, <<"get_meters", 2>>,
            <<"get_meter_history", 21>>,
            <<"get_cameras", 2>>, <<"main_pass", 2>>, <<"guest_passes", 2>>>>


\* C16: a refresh issues its first fetch, the account list, in the step in
\* which its authentication succeeds; while it authenticates or sleeps
\* between attempts it has issued no fetch, and a refresh whose
\* authentication has failed has issued none at all.
C16_AuthenticateFirst ==
    [][\A p \in Refreshers :
          LET t == task[p]
              u == task'[p]
          IN  /\ (t.calls = <<>> /\ u.calls # <<>>) =>
                    /\ t.pc = "authenticate"
                    /\ u.trace[Len(u.trace)] = <<"ok", t.attempt>>
                    /\ Has(u.auth_data, "accessToken")
                    /\ access_token' = u.auth_data.accessToken
                    /\ u.calls = <<<<"get_accounts", 0>>>>
              /\ u.pc \in {"authenticate", "sleep"} => u.calls = <<>>
              /\ AuthExhausted(u) => u.calls = <<>>]_vars
\* one refresh has ended with failed authentication and no fetch, while
\* another has authenticated on its second attempt and asks for the accounts
C16_Witness ==
    \E p, q \in Refreshers :
        /\ AuthExhausted(task[p])
        /\ task[p].calls = <<>>
        /\ task[q].pc = "get_accounts"
        /\ task[q].attempt = 2
        /\ task[q].calls = <<<<"get_accounts", 0>>>>


\* C17: the access token changes only in a step in which an authentication
\* attempt succeeds, and the published snapshot changes only in a step in
\* which a refresh ends its fetch pass without an error, to the whole
\* snapshot that refresh assembled.
C17_SharedStateWrittenAtTwoPoints ==
    [][/\ access_token' # access_token =>
             \E p \in Refreshers :
                 /\ task[p].pc = "authenticate"
                 /\ task'[p].pc = "get_accounts"
       /\ data' # data =>
             \E p \in Refreshers :
                 /\ InFlight(p)
                 /\ Succeeded(task'[p])
                 /\ data' = Snapshot(task'[p].outcome.result)]_vars


\* the ways a refresh ends
Outcomes(t) ==
    {o \in {"published", "auth_failed", "update_failed"} :
        CASE o = "published" -> Succeeded(t)
          [] o = "auth_failed" -> Raised(t) /\ t.outcome.exc.type = "ConfigEntryAuthFailed"
          [] o = "update_failed" -> Raised(t) /\ t.outcome.exc.type = "UpdateFailed"}

\* C18: when every awaited call returns or fails, a refresh that was
\* triggered returns to its caller with exactly one of the three outcomes,
\* and after it the refresh is idle again.
C18_RefreshReturns ==
    \A p \in Refreshers :
        /\ InFlight(p) ~> (task[p].pc = "returned" /\ Cardinality(Outcomes(task[p])) = 1)
        /\ (task[p].pc = "returned") ~> (task[p].pc = "idle")
\* all the refreshes that could be triggered have been, each has returned
\* and a snapshot is published
C18_Witness ==
    /\ started = LiveRefreshes
    /\ \A p \in Refreshers : task[p].pc = "idle"
    /\ data # NoData


(***************************************************************************)
(* The two field extractions on their own: _extract_payment_status on an   *)
(* optionalObject and the address and personal-account parsing of          *)
(* _async_update_data on an account of the list, for the shapes a payload  *)
(* can have.                                                               *)
(***************************************************************************)
T_DEBT == <<" ", "D", "e", "b", "t", " ">>
T_PAID == <<"<", "s", "p", "a", "n", " ", "c", ">", " ", "P", "a", "i", "d", " ">> \o SPAN_CLOSE
T_TWO_LINES == <<"<", "s", "p", "a", "n", ">", "P", "a", "i", "d", "\n", "u", "p">> \o SPAN_CLOSE
T_FORM_FEED == <<"\f", "P", "a", "i", "d", "U+00A0">>
FieldValues == {T_DEBT, T_PAID, T_TWO_LINES, T_FORM_FEED, <<NONE>>}

\* "cells" of a row: the key may be missing, the list null or empty, the
\* first cell null or without "value"
CellsShapes ==
    {EmptyDict, [cells |-> <<>>], [cells |-> <<[title |-> <<"t">>]>>],
     [cells |-> NoneList], [cells |-> <<NoneDict>>]}
        \cup {[cells |-> <<[value |-> v]>>] : v \in FieldValues}

\* d.update(e)
Update(d, e) ==
    [k \in (IF d = EmptyDict THEN {} ELSE DOMAIN d) \cup (IF e = EmptyDict THEN {} ELSE DOMAIN e) |->
        IF Has(e, k) THEN e[k] ELSE d[k]]

StatusRows ==
    {Update(c, v) : c \in CellsShapes,
                    v \in {EmptyDict, [isVisible |-> TRUE], [isVisible |-> FALSE]}}
        \cup {NoneDict}

StatusInputs ==
    {EmptyDict, NoneDict, [rows |-> NoneList]} \cup
    {[rows |-> rows] : rows \in UNION {[1..n -> StatusRows] : n \in 0..MaxRows}}

AccountInputs ==
    {Update([objectId |-> o], f) :
        o \in {[id |-> 1], [id |-> 1, title |-> <<NONE>>],
               [id |-> 1, title |-> AccountTitle(1)], [id |-> 1, title |-> T_DEBT]},
        f \in {EmptyDict, [customFields |-> EmptyDict], [customFields |-> [rows |-> <<>>]],
               [customFields |-> NoneDict], [customFields |-> [rows |-> NoneList]],
               [customFields |-> [rows |-> <<NoneDict>>]]}
                \cup {[customFields |-> [rows |-> <<c>>]] : c \in CellsShapes}}

\* the data operations of the API client that return data["data"] or its items
DataOps ==
    {"authenticate", "get_accounts", "get_account_data", "get_communal_requests",
     "get_meters", "get_meter_history"}

\* the JSON bodies of a response: with and without statusCode, with and
\* without data, the data with and without items; null for the body, the
\* data or the items
ApiBodies ==
    LET payloads == {[accessToken |-> 7, refreshToken |-> 8],
                     [items |-> <<[id |-> 1]>>],
                     [items |-> <<>>], [items |-> NoneList], NoneDict}
    IN  {EmptyDict, NoneDict, [statusCode |-> HTTP_OK], [statusCode |-> 403]}
            \cup {[statusCode |-> c, data |-> d] : c \in {HTTP_OK, 403}, d \in payloads}
            \cup {[data |-> d] : d \in payloads}

\* the responses of session.post and session.get, and the transport failure
ApiReplies ==
    {[net |-> "ok", status |-> st, body |-> b] : st \in {HTTP_OK, 401, 500}, b \in ApiBodies}
        \cup {[net |-> "ClientError", status |-> 0, body |-> EmptyDict]}

\* the preview of a camera of the upstream list: absent, null, empty, without
\* and with query strings
NO_KEY == <<"no key">>
PreviewShapes ==
    {NO_KEY, <<NONE>>, <<>>, <<"p">>, <<"p", "?", "t">>, <<"p", "?", "t", "?", "u">>,
     <<"?", "t">>}

\* a camera of the upstream list
UpstreamCamera(i, preview) ==
    IF preview = NO_KEY THEN [id |-> i] ELSE [id |-> i, preview |-> preview]

\* the upstream camera lists of up to MaxCameras cameras
CameraLists ==
    UNION {{[i \in 1..n |-> UpstreamCamera(i, f[i])] : f \in [1..n -> PreviewShapes]} :
             n \in 0..MaxCameras}

\* the responses to the camera-list request
CameraReplies ==
    {[net |-> "ok", status |-> HTTP_OK, body |-> [statusCode |-> HTTP_OK, data |-> d]] :
        d \in {[cameras |-> cs] : cs \in CameraLists}
                 \cup {EmptyDict, NoneDict, [cameras |-> NoneList],
                       [cameras |-> <<NoneDict>>]}}
        \cup {[net |-> "ok", status |-> 500, body |-> EmptyDict]}

ApiInputs ==
    {[fn |-> "api", pc |-> "input", arg |-> [op |-> op, reply |-> r], result |-> NoOutcome] :
        op \in DataOps, r \in ApiReplies}
        \cup {[fn |-> "api", pc |-> "input", arg |-> [op |-> "get_cameras", reply |-> r],
               result |-> NoOutcome] : r \in CameraReplies}

\* the unit of a meter sensor by meter_data.get("type_id"); "m^3" is the
\* text of the cubic meter
UnitOf(type_id) ==
    IF type_id \in {"HotWater", "ColdWater"} THEN "m^3"
    ELSE IF type_id = "Heating" THEN "Gcal"
    ELSE IF type_id = "Electricity" THEN "kWh"
    ELSE NONE

\* the same of version 1.0.18 (src/sensor.py): unit_of_measurement="m3" if
\* type_id in ["HotWater", "ColdWater"] else "Gcal" if type_id == "Heating"
\* else None
LegacyUnitOf(type_id) ==
    IF type_id \in {"HotWater", "ColdWater"} THEN "m^3"
    ELSE IF type_id = "Heating" THEN "Gcal"
    ELSE NONE

\* the type codes of a meter record; NONE when the meter has no type
TypeIds == {"HotWater", "ColdWater", "Heating", "Electricity", "Gas", NONE}

UnitInputs ==
    {[fn |-> "unit", pc |-> "input", arg |-> x, result |-> NoOutcome] : x \in TypeIds}

FieldInputs ==
    {[fn |-> "status", pc |-> "input", arg |-> x, result |-> NoOutcome] : x \in StatusInputs}
        \cup {[fn |-> "account", pc |-> "input", arg |-> x, result |-> NoOutcome] :
                 x \in AccountInputs}
        \cup ApiInputs
        \cup UnitInputs

InitFields ==
    /\ InitCoordinator
    /\ calc \in FieldInputs

\* "payment_status": self._extract_payment_status(...)
ExtractStatus ==
    /\ calc.fn = "status"
    /\ calc.pc = "input"
    /\ \E r \in {_extract_payment_status(calc.arg)} :
         calc' = [calc EXCEPT !.pc = IF r.ok THEN "returned" ELSE "raised", !.result = r]
    /\ UNCHANGED <<access_token, refresh_token, data, task, gen, faults, started, stream, entities, install>>

\* the try block of the account loop
ParseFields ==
    /\ calc.fn = "account"
    /\ calc.pc = "input"
    /\ \E r \in {ParseAccount(calc.arg)} :
         calc' = [calc EXCEPT !.pc = "returned", !.result = Ok(r)]
    /\ UNCHANGED <<access_token, refresh_token, data, task, gen, faults, started, stream, entities, install>>

\* one data operation of the API client applied to the response it awaited
ClientOp(op, reply) ==
    CASE op = "authenticate" -> authenticate(reply)
      [] op = "get_accounts" -> get_accounts(reply)
      [] op = "get_account_data" -> get_account_data(reply)
      [] op = "get_communal_requests" -> get_communal_requests(reply)
      [] op = "get_meters" -> get_meters(reply)
      [] op = "get_meter_history" -> get_meter_history(reply)
      [] op = "get_cameras" -> get_cameras(reply)

\* the call of a data operation: it returns or it raises
CallClient ==
    /\ calc.fn = "api"
    /\ calc.pc = "input"
    /\ \E r \in {ClientOp(calc.arg.op, calc.arg.reply)} :
         calc' = [calc EXCEPT !.pc = IF r.ok THEN "returned" ELSE "raised", !.result = r]
    /\ UNCHANGED <<access_token, refresh_token, data, task, gen, faults, started, stream, entities, install>>

\* the unit of the meter sensor is chosen, by either version of the platform
ChooseUnit ==
    /\ calc.fn = "unit"
    /\ calc.pc = "input"
    /\ calc' = [calc EXCEPT !.pc = "returned",
                            !.result = [unit |-> UnitOf(calc.arg),
                                        legacy |-> LegacyUnitOf(calc.arg)]]
    /\ UNCHANGED <<access_token, refresh_token, data, task, gen, faults, started, stream, entities, install>>

NextFields == ExtractStatus \/ ParseFields \/ CallClient \/ ChooseUnit

SpecFields == InitFields /\ [][NextFields]_vars

\* the rows of a payload that are flagged visible
VisibleRows(arg) ==
    LET rows == IF Has(arg, "rows") THEN arg.rows ELSE <<>>
    IN  SelectSeq(rows, LAMBDA row : Has(row, "isVisible") /\ row.isVisible)

\* the text between the first "<span ...>" of a text and the "</span>" that
\* closes it, line breaks included; the text itself when it has no span
InsideSpan(text) ==
    LET opens == {i \in 1..Len(text) : MatchAt(text, i, SPAN_OPEN)}
        ends(i) == {j \in i..Len(text) : text[j] = ">"}
        closes(j) == {k \in (j + 1)..Len(text) : MatchAt(text, k, SPAN_CLOSE)}
        spans == {i \in opens : ends(i) # {} /\ closes(Min(ends(i))) # {}}
    IN  IF spans = {} THEN text
        ELSE LET from == Min(ends(Min(spans)))
             IN  SubSeq(text, from + 1, Min(closes(from)) - 1)

\* C19: the payment status is "Unknown" when no row is flagged visible, and
\* else the text of the first visible row: the trimmed content of its span
\* when it has one, its trimmed value when it has none.
C19_StatusOfFirstVisibleRow ==
    (calc.fn = "status" /\ calc.pc = "returned") =>
        LET visible == VisibleRows(calc.arg)
        IN  IF visible = <<>> THEN calc.result.value = UNKNOWN
            ELSE calc.result.value = Strip(InsideSpan(visible[1].cells[1].value))

\* C20: neither extraction raises, whatever the shape of the payload: each
\* gives a value.
C20_ExtractionNeverRaises ==
    (calc.fn \in {"status", "account"}) => calc.pc # "raised"


\* the value of the first cell of the first custom field of an account, and
\* the account's title, when the payload has them as text
HasCellText(account) ==
    /\ Has(account, "customFields")
    /\ Has(account.customFields, "rows")
    /\ account.customFields.rows # <<>>
    /\ Has(account.customFields.rows[1], "cells")
    /\ account.customFields.rows[1].cells # <<>>
    /\ Has(account.customFields.rows[1].cells[1], "value")
    /\ account.customFields.rows[1].cells[1].value # <<NONE>>
CellText(account) == account.customFields.rows[1].cells[1].value
HasTitleText(account) ==
    /\ Has(account.objectId, "title")
    /\ account.objectId.title # <<NONE>>

\* a text holds a span: "<span", later ">", later "</span>"
SpanIn(text) ==
    \E i, j, k \in 1..Len(text) :
        /\ MatchAt(text, i, SPAN_OPEN)
        /\ j >= i + Len(SPAN_OPEN) /\ text[j] = ">"
        /\ k > j /\ MatchAt(text, k, SPAN_CLOSE)

\* r is s without the white space at its two ends
IsTrimOf(r, s) ==
    \E i \in 0..Len(s), j \in 0..Len(s) :
        /\ \A x \in 1..i : s[x] \in Whitespace
        /\ \A x \in (j + 1)..Len(s) : s[x] \in Whitespace
        /\ r = (IF i < j THEN SubSeq(s, i + 1, j) ELSE <<>>)
        /\ r # <<>> => (r[1] \notin Whitespace /\ r[Len(r)] \notin Whitespace)

\* ds is the run of digits that follows the first "L/s #" of a title that
\* has one followed by a digit
IsNumberOf(ds, title) ==
    \E i \in 1..Len(title) :
        /\ MatchAt(title, i, LS_MARK)
        /\ \A h \in 1..(i - 1) :
              ~(MatchAt(title, h, LS_MARK) /\ h + Len(LS_MARK) <= Len(title)
                   /\ title[h + Len(LS_MARK)] \in Digit)
        /\ ds # <<>>
        /\ MatchAt(title, i + Len(LS_MARK), ds)
        /\ \A x \in 1..Len(ds) : ds[x] \in Digit
        /\ LET after == i + Len(LS_MARK) + Len(ds)
           IN  after <= Len(title) => title[after] \notin Digit
HasNumber(title) ==
    \E i \in 1..Len(title) :
        /\ MatchAt(title, i, LS_MARK)
        /\ i + Len(LS_MARK) <= Len(title)
        /\ title[i + Len(LS_MARK)] \in Digit

\* C21, as claimed: for every account the address is the trimmed content of
\* the first span of the first custom-field cell, or the not-recognized
\* sentinel when there is no span; the personal-account number is the digit
\* run after "L/s #" in the title, or the not-found sentinel when the title
\* has none; nothing is raised.
C21_AddressAndNumber ==
    (calc.fn = "account" /\ calc.pc # "input") =>
        /\ calc.pc = "returned"
        /\ LET account == calc.arg
               r == calc.result.value
           IN  /\ IF HasCellText(account) /\ SpanIn(CellText(account))
                  THEN IsTrimOf(r.address, InsideSpan(CellText(account)))
                  ELSE r.address = ADDRESS_NOT_RECOGNIZED
               /\ IF HasTitleText(account) /\ HasNumber(account.objectId.title)
                  THEN IsNumberOf(r.personal_account, account.objectId.title)
                  ELSE r.personal_account = LS_NOT_FOUND

\* what the code does (C21, C37): that holds for every account whose first
\* custom-field cell value and title are both text; for any other account
\* both fields are the error sentinel; nothing is raised.
C21_AddressAndNumberOfTextFields ==
    (calc.fn = "account" /\ calc.pc # "input") =>
        /\ calc.pc = "returned"
        /\ LET account == calc.arg
               r == calc.result.value
           IN  IF HasCellText(account) /\ HasTitleText(account)
               THEN /\ IF SpanIn(CellText(account))
                       THEN IsTrimOf(r.address, InsideSpan(CellText(account)))
                       ELSE r.address = ADDRESS_NOT_RECOGNIZED
                    /\ IF HasNumber(account.objectId.title)
                       THEN IsNumberOf(r.personal_account, account.objectId.title)
                       ELSE r.personal_account = LS_NOT_FOUND
               ELSE r = [address |-> PARSE_ERROR, personal_account |-> PARSE_ERROR]
\* a span with an attribute and white space around its content, and a title
\* with a number
C21_Witness ==
    /\ calc.fn = "account"
    /\ calc.pc = "returned"
    /\ HasCellText(calc.arg) /\ CellText(calc.arg) = T_PAID
    /\ HasTitleText(calc.arg) /\ calc.arg.objectId.title = AccountTitle(1)
    /\ calc.result.value = [address |-> <<"P", "a", "i", "d">>,
                            personal_account |-> <<"1", "7">>]


(***************************************************************************)
(* C22, C29: the data operations of the API client, applied to every       *)
(* response of ApiReplies and CameraReplies under SpecFields.              *)
(***************************************************************************)
\* the response of a call: HTTP status 200 and application status code 200
BothOk(reply) ==
    /\ reply.net = "ok"
    /\ reply.status = 200
    /\ reply.body # <<>> /\ "statusCode" \in DOMAIN reply.body /\ reply.body.statusCode = 200

\* the body carries what the operation returns: data, and for the list
\* operations data.items
CarriesPayload(op, body) ==
    /\ body # <<>> /\ "data" \in DOMAIN body
    /\ op \in {"get_accounts", "get_communal_requests", "get_meters", "get_meter_history"}
         => body.data # <<>> /\ "items" \in DOMAIN body.data

\* the payload the operation is to return
PayloadOf(op, body) ==
    IF op \in {"get_accounts", "get_communal_requests", "get_meters", "get_meter_history"}
    THEN body.data.items ELSE body.data

\* C22: a data operation of the API client, called on a response that reached
\* it, returns the data payload of the body exactly when the HTTP status is
\* 200 and the status code of the body is 200; when either is not 200 it
\* fails with an error and returns nothing.
C22_PayloadExactlyWhenBothOk ==
    (calc.fn = "api" /\ calc.arg.op \in DataOps /\ calc.pc # "input"
        /\ calc.arg.reply.net = "ok")
        => /\ BothOk(calc.arg.reply)
                => /\ calc.pc = "returned"
                   /\ calc.result = [ok |-> TRUE,
                                     value |-> PayloadOf(calc.arg.op, calc.arg.reply.body)]
           /\ ~BothOk(calc.arg.reply)
                => /\ calc.pc = "raised"
                   /\ ~calc.result.ok

\* what the operations do: the payload is returned when both statuses are
\* 200 and the body carries it; when either status is not 200 the operation
\* raises a client error (a body that is null raises another error)
C22_PayloadWhenCarried ==
    (calc.fn = "api" /\ calc.arg.op \in DataOps /\ calc.pc # "input"
        /\ calc.arg.reply.net = "ok")
        => /\ (BothOk(calc.arg.reply) /\ CarriesPayload(calc.arg.op, calc.arg.reply.body))
                => /\ calc.pc = "returned"
                   /\ calc.result = [ok |-> TRUE,
                                     value |-> PayloadOf(calc.arg.op, calc.arg.reply.body)]
           /\ ~BothOk(calc.arg.reply)
                => /\ calc.pc = "raised"
                   /\ ~calc.result.ok
                   /\ calc.arg.reply.body # NoneDict => calc.result.err.type = "ClientError"

\* authenticate got HTTP 200 and a body with status code 200 and no data:
\* return data["data"] raised KeyError and nothing was returned
C22_NoDataRaises ==
    /\ calc.fn = "api" /\ calc.arg.op = "authenticate" /\ calc.pc = "raised"
    /\ calc.arg.reply.status = 200
    /\ calc.arg.reply.body = [statusCode |-> 200]
    /\ calc.result.err.type = "KeyError"

\* get_meter_history returned the items of a response with both statuses 200
C22_Witness ==
    /\ calc.fn = "api" /\ calc.arg.op = "get_meter_history" /\ calc.pc = "returned"
    /\ BothOk(calc.arg.reply)
    /\ calc.result.value = <<[id |-> 1]>>

\* get_account_data raised on HTTP 200 with a status code that is not 200,
\* though the body carried data
C22_WitnessRejected ==
    /\ calc.fn = "api" /\ calc.arg.op = "get_account_data" /\ calc.pc = "raised"
    /\ calc.arg.reply.status = 200
    /\ calc.arg.reply.body = [statusCode |-> 403, data |-> [items |-> <<>>]]

\* the upstream preview of a camera, empty when the key is absent
UpstreamPreview(camera) == IF "preview" \in DOMAIN camera THEN camera.preview ELSE <<>>

\* r is s cut before its first "?"
IsCutOf(r, s) ==
    /\ \A i \in 1..Len(r) : r[i] # "?"
    /\ Len(r) <= Len(s)
    /\ \A i \in 1..Len(r) : r[i] = s[i]
    /\ Len(r) < Len(s) => s[Len(r) + 1] = "?"

\* C29: every camera record get_cameras returns has a preview, which is the
\* upstream preview cut before its first "?" (empty when upstream has none),
\* the other keys are kept, and cutting a returned record again changes
\* nothing.
C29_PreviewCutAtQuery ==
    (calc.fn = "api" /\ calc.arg.op = "get_cameras" /\ calc.pc = "returned")
        => LET sent == IF calc.arg.reply.body.data = <<>> THEN <<>>
                       ELSE calc.arg.reply.body.data.cameras
               got == calc.result.value
           IN  /\ Len(got) = Len(sent)
               /\ \A i \in 1..Len(got) :
                    /\ "preview" \in DOMAIN got[i]
                    /\ IsCutOf(got[i].preview, UpstreamPreview(sent[i]))
                    /\ got[i].id = sent[i].id
                    /\ StripPreview(got[i]) = got[i]

\* a list with a camera without preview and one with two query marks
C29_Witness ==
    /\ calc.fn = "api" /\ calc.arg.op = "get_cameras" /\ calc.pc = "returned"
    /\ calc.arg.reply.body.data # <<>>
    /\ Len(calc.result.value) = 2
    /\ calc.arg.reply.body.data.cameras[1] = [id |-> 1]
    /\ calc.result.value[1].preview = <<>>
    /\ calc.arg.reply.body.data.cameras[2].preview = <<"p", "?", "t", "?", "u">>
    /\ calc.result.value[2].preview = <<"p">>


(***************************************************************************)
(* The sensor platform (custom_components/lsr_for_home_assistant/sensor.py *)
(* version 1.2.0).  async_setup_entry runs once the first refresh has      *)
(* published a snapshot and adds the entities of every account of that     *)
(* snapshot; an entity keeps the coordinator, its account id, its sensor   *)
(* type and the state it was created with.  An exception anywhere in      *)
(* async_setup_entry leaves the platform without entities.  An entity is   *)
(* keyed <<account_id, sensor_type, meter_id>>, meter_id 0 for the sensors *)
(* of the account; the sensor type "meter-value" stands for                *)
(* f"meter-{meter_id}-value".  Of an entity its state and its unit are     *)
(* kept; names, icons and the extra attributes are modelled as far as      *)
(* computing them can raise.  The Cyrillic literals are written in Latin   *)
(* letters here too, and the numero sign as its code point.                *)
(***************************************************************************)
SensorTypes ==
    {"address", "personal-account-number", "payment-status", "notification-count",
     "camera-count"}

\* the sensor types whose value is int(state)
CountTypes ==
    {"notification-count", "camera-count", "meter-count", "communalrequest-count-total",
     "communalrequest-count-done", "communalrequest-count-atwork",
     "communalrequest-count-onhold", "communalrequest-count-waitingforregistration",
     "guestpass"}
\* the sensor types whose value is round(float(state), 4)
ValueTypes == {"meter-value", "payment-due"}

NUMERIC_DEFAULT == 999
STRING_DEFAULT == <<"STRING_DEFAULT">>
NO_TITLE == <<"Bez nazvaniya">>
NO_PIN == <<"Net pina">>
NUMBER_SIGN == "U+2116"

\* key = sensor_type.replace("-", "_")
Underscored(sensor_type) ==
    CASE sensor_type = "address" -> "address"
      [] sensor_type = "personal-account-number" -> "personal_account_number"
      [] sensor_type = "payment-status" -> "payment_status"
      [] sensor_type = "notification-count" -> "notification_count"
      [] sensor_type = "camera-count" -> "camera_count"

\* LSRSensor.__init__: self._state = state if state is not None else ...
\* (sensor_type is no count type where the state is a text)
NewText(state) == IF IsNone(state) THEN UNKNOWN ELSE state

\* re.sub(r"<[^>]+>", "", s): every "<", one character or more that is no
\* ">" and the ">" after them are taken out
RECURSIVE StripTags(_)
StripTags(s) ==
    LET opens == {i \in 1..Len(s) :
                    /\ s[i] = "<"
                    /\ i + 1 <= Len(s) /\ s[i + 1] # ">"
                    /\ \E j \in (i + 2)..Len(s) : s[j] = ">"}
        i == Min(opens)
        j == Min({k \in (i + 2)..Len(s) : s[k] = ">"})
    IN  IF opens = {} THEN s
        ELSE SubSeq(s, 1, i - 1) \o StripTags(SubSeq(s, j + 1, Len(s)))
TagsOf(s) ==
    IF IsNone(s)
    THEN NOT_A_STRING
    ELSE Ok(StripTags(s))

\* re.search(r"Nachisleno\s*([\d.,]+)", text): group 1 of the first match,
\* <<>> when nothing matches (a match has one character at least)
AmountSearch(text) ==
    LET after(i) == Min({k \in (i + Len(NACHISLENO))..(Len(text) + 1) :
                           k > Len(text) \/ text[k] \notin Whitespace})
        inGroup(k) == text[k] \in Digit \cup {".", ","}
        starts == {i \in 1..Len(text) :
                     /\ MatchAt(text, i, NACHISLENO)
                     /\ after(i) <= Len(text) /\ inGroup(after(i))}
        from == after(Min(starts))
        to == Min({k \in from..Len(text) : k = Len(text) \/ ~inGroup(k + 1)})
    IN  IF starts = {} THEN <<>> ELSE SubSeq(text, from, to)

\* re.sub(r"N\d+.*", "", title), N the numero sign: from every numero sign
\* that a digit follows, the rest of the line is taken out
RECURSIVE WithoutNumber(_)
WithoutNumber(title) ==
    LET starts == {i \in 1..(Len(title) - 1) :
                     title[i] = NUMBER_SIGN /\ title[i + 1] \in Digit}
        i == Min(starts)
        ends == {j \in i..Len(title) : title[j] = "\n"}
    IN  IF starts = {} THEN title
        ELSE SubSeq(title, 1, i - 1)
             \o (IF ends = {} THEN <<>>
                 ELSE WithoutNumber(SubSeq(title, Min(ends), Len(title))))

\* the sensors per sensor type and the meter count, keyed by sensor type;
\* sorted(account_data.keys()) wants a record that is a dict, the entity id
\* of an account without personal_account_number and the device name of
\* every entity want account_id[-8:] of an id that is a str, len(meters)
\* wants meters that are a dict, and the loop that collects all_meters wants
\* every meter to be one
AccountSensors(account_id, account_data) ==
    LET meters == Get(account_data, "meters", EmptyDict)
    IN  IF IsNoneDict(account_data) THEN NoneHasNo("keys")
        ELSE IF account_id = NONE_ID THEN NOT_SUBSCRIPTABLE
        ELSE IF IsNoneList(meters)
        THEN Raise("TypeError", <<"object of type 'NoneType' has no len()">>)
        ELSE IF \E i \in 1..Len(meters) : IsNoneDict(meters[i][2])
        THEN NoneHasNo("get")
        ELSE Ok(
    [sensor_type \in SensorTypes \cup {"meter-count"} |->
        IF sensor_type = "meter-count"
        THEN [state |-> Len(meters), unit |-> NONE]
        ELSE IF sensor_type \in CountTypes
        THEN [state |-> Get(account_data, Underscored(sensor_type), NUMERIC_DEFAULT),
              unit |-> NONE]
        ELSE [state |-> NewText(Get(account_data, Underscored(sensor_type), STRING_DEFAULT)),
              unit |-> NONE]])

\* the sensor of one meter: re.search and re.sub want a title that is a
\* text, and a title that is nothing but its number falls back on the last
\* word of type_title
MeterSensor(meter_data) ==
    LET title == Get(meter_data, "title", NO_TITLE)
        type_title == Get(meter_data, "type_title", <<"Schetchik">>)
        no_prefix == Strip(WithoutNumber(title)) = <<>>
    IN  IF IsNone(title)
        THEN NOT_A_STRING
        ELSE IF no_prefix /\ IsNone(type_title) THEN NoneHasNo("split")
        ELSE IF no_prefix /\ Strip(type_title) = <<>>
        THEN Raise("IndexError", <<"list index out of range">>)
        ELSE Ok([state |-> current_value(Get(meter_data, "history", <<>>)),
                 unit |-> UnitOf(Get(meter_data, "type_id", NONE))])

\* the five request counters, keyed by sensor type
RequestSensors(account_data) ==
    LET communal_requests == Get(account_data, "communal_requests", <<>>)
        status(i) == Get(communal_requests[i], "status", EmptyDict)
        none == {i \in 1..Len(communal_requests) :
                   IsNoneDict(communal_requests[i]) \/ IsNoneDict(status(i))}
        count(id) == [state |-> Cardinality({i \in 1..Len(communal_requests) :
                                               Get(status(i), "id", NONE) = id}),
                      unit |-> NONE]
    IN  IF IsNoneList(communal_requests)
        THEN Raise("TypeError", <<"object of type 'NoneType' has no len()">>)
        ELSE IF none # {} THEN NoneHasNo("get")
        ELSE Ok([sensor_type \in CountTypes \ {"notification-count", "camera-count",
                                               "meter-count", "guestpass"} |->
                   CASE sensor_type = "communalrequest-count-total" ->
                          [state |-> Len(communal_requests), unit |-> NONE]
                     [] sensor_type = "communalrequest-count-done" -> count("Done")
                     [] sensor_type = "communalrequest-count-atwork" -> count("AtWork")
                     [] sensor_type = "communalrequest-count-onhold" -> count("OnHold")
                     [] sensor_type = "communalrequest-count-waitingforregistration" ->
                          count("WaitingForRegistration")])

\* latest_accrual.get("listFields", {}).get("rows", [{}])[0]
\*     .get("cells", [{}, {}])[1].get("value", "")
AmountCell(latest_accrual) ==
    LET listFields == Get(latest_accrual, "listFields", EmptyDict)
        rows == Get(listFields, "rows", <<EmptyDict>>)
        cells == Get(rows[1], "cells", <<EmptyDict, EmptyDict>>)
    IN  IF IsNoneDict(latest_accrual) \/ IsNoneDict(listFields) THEN NoneHasNo("get")
        ELSE IF ~At(rows, 1).ok THEN At(rows, 1)
        ELSE IF IsNoneDict(rows[1]) THEN NoneHasNo("get")
        ELSE IF ~At(cells, 2).ok THEN At(cells, 2)
        ELSE IF IsNoneDict(cells[2]) THEN NoneHasNo("get")
        ELSE Ok(Get(cells[2], "value", <<>>))

\* amount: 0.0, or the sum that follows the word in the cell
Amount(latest_accrual) ==
    Then(AmountCell(latest_accrual), LAMBDA amount_cell :
    Then(TagsOf(amount_cell), LAMBDA amount_text :
         IF AmountSearch(amount_text) = <<>> THEN Ok(ZERO)
         ELSE ParseFloat(ReplaceComma(AmountSearch(amount_text)))))

\* accrual["listFields"]["rows"][0]["cells"][n - 1]["value"] without its tags
AccrualCell(accrual, n) ==
    Then(Item(accrual, "listFields"), LAMBDA listFields :
    Then(Item(listFields, "rows"), LAMBDA rows :
    Then(At(rows, 1), LAMBDA row :
    Then(Item(row, "cells"), LAMBDA cells :
    Then(At(cells, n), LAMBDA cell :
    Then(Item(cell, "value"), LAMBDA value : TagsOf(value)))))))

\* the attributes of one accrual: its id, its date and its sum
AccrualAttributes(accrual) ==
    Then(Item(accrual, "objectId"), LAMBDA objectId :
    Then(Item(objectId, "id"), LAMBDA accrual_id :
    Then(AccrualCell(accrual, 1), LAMBDA date_text :
    Then(AccrualCell(accrual, 2), LAMBDA value_text :
         Ok([id |-> accrual_id, date |-> Strip(date_text),
             amount |-> IF AmountSearch(value_text) = <<>> THEN <<NONE>>
                        ELSE AmountSearch(value_text)])))))

\* the payment-due sensor, when the account has accruals (if accruals:)
PaymentSensors(account_data) ==
    LET accruals == Get(account_data, "accruals", <<>>)
        failed == {i \in 1..Len(accruals) : ~AccrualAttributes(accruals[i]).ok}
    IN  IF accruals = <<>> \/ IsNoneList(accruals) THEN Ok(EmptyDict)
        ELSE IF ~Amount(accruals[1]).ok THEN Amount(accruals[1])
        ELSE IF failed # {} THEN AccrualAttributes(accruals[Min(failed)])
        ELSE Ok([sensor_type \in {"payment-due"} |->
                   [state |-> Amount(accruals[1]).value, unit |-> NONE]])

\* the line of one guest pass; datetime.fromtimestamp takes the seconds the
\* model writes
GuestPass(pass_data) ==
    Then(Item(pass_data, "dateFrom"), LAMBDA dateFrom :
    Then(Item(pass_data, "dateTo"), LAMBDA dateTo :
    Then(Item(pass_data, "strategy"), LAMBDA strategy :
    Then(Item(strategy, "title"), LAMBDA title : Ok(title)))))

\* the skud-qr-code sensor, when the account has a pass
SkudSensors(account_data) ==
    LET main_pass == Get(account_data, "main_pass", EmptyDict)
        guest_passes_data == Get(account_data, "guest_passes", EmptyDict)
        items == Get(guest_passes_data, "items", <<>>)
        failed == {i \in 1..Len(items) : ~GuestPass(items[i]).ok}
    IN  IF ~(TruthyDict(main_pass) \/ TruthyDict(guest_passes_data)) THEN Ok(EmptyDict)
        ELSE IF IsNoneDict(main_pass) \/ IsNoneDict(guest_passes_data) THEN NoneHasNo("get")
        ELSE IF IsNoneList(items) THEN NOT_ITERABLE
        ELSE IF failed # {} THEN GuestPass(items[Min(failed)])
        ELSE Ok([sensor_type \in {"skud-qr-code"} |->
                   [state |-> NewText(Get(main_pass, "pin", NO_PIN)), unit |-> NONE]])

\* the body of the loop over coordinator.data.items() for one account: the
\* entities of the account, an entity keyed <<account_id, sensor_type,
\* meter_id>>, or the exception of the first step that raises; the meters
\* are gone through in the order they were stored in
NewSensor(account_id, account_data) ==
    LET meters == Get(account_data, "meters", EmptyDict)
        failed == {i \in 1..Len(meters) : ~MeterSensor(meters[i][2]).ok}
        keyed(sensors) ==
            [key \in {<<account_id, sensor_type, 0>> : sensor_type \in DOMAIN sensors} |->
                sensors[key[2]]]
        of_meters ==
            [key \in {<<account_id, "meter-value", meter_id>> : meter_id \in Keys(meters)} |->
                MeterSensor(Value(meters, key[3])).value]
    IN  Then(AccountSensors(account_id, account_data), LAMBDA of_account :
             IF failed # {} THEN MeterSensor(meters[Min(failed)][2])
             ELSE Then(RequestSensors(account_data), LAMBDA of_requests :
                  Then(PaymentSensors(account_data), LAMBDA of_payment :
                  Then(SkudSensors(account_data), LAMBDA of_skud :
                       Ok(keyed(of_account) @@ of_meters
                          @@ keyed(of_requests) @@ keyed(of_payment) @@ keyed(of_skud))))))

\* for account_id, account_data in coordinator.data.items(): ..., the
\* accounts in the order their records were stored in
RECURSIVE NewSensors(_)
NewSensors(snapshot) ==
    IF snapshot = <<>> THEN Ok(EmptyDict)
    ELSE Then(NewSensor(Head(snapshot)[1], Head(snapshot)[2]), LAMBDA first :
         Then(NewSensors(Tail(snapshot)), LAMBDA rest : Ok(first @@ rest)))

\* the sensor platform is set up: async_add_entities(entities), which an
\* exception on the way keeps from being called
SetupEntry ==
    /\ entities = NoEntities
    /\ data # NoData
    /\ \E new \in {NewSensors(data.items)} :
         entities' = IF new.ok THEN [kind |-> "added", sensors |-> new.value]
                     ELSE [kind |-> "failed", err |-> new.err]
    /\ UNCHANGED <<access_token, refresh_token, data, task, gen, faults, started, stream, calc,
                   install>>

\* a variant of available that is always true, which C23 excludes
AlwaysAvailable(key) == Ok(TRUE)

\* LSRSensor.available: self._coordinator.data.get(self._account_id) is not None
available(key) ==
    IF data = NoData
    THEN Raise("AttributeError", <<"'NoneType' object has no attribute 'get'">>)
    ELSE Ok(key[1] \in Keys(data.items) /\ ~IsNoneDict(Value(data.items, key[1])))

\* LSRSensor.native_value: the lookup of self._sensor_type in the record of
\* the account, self._state when there is none; then int(state) for a count
\* (the state of a count is an integer, which int() returns as it is),
\* round(float(state), 4) for a meter value and the payment due (the state is
\* a float), str(state) for the others (the state is a text, which str()
\* returns as it is, "Unknown" for None)
native_value(key) ==
    IF data = NoData
    THEN Raise("AttributeError", <<"'NoneType' object has no attribute 'get'">>)
    ELSE LET record == IF key[1] \in Keys(data.items) THEN Value(data.items, key[1])
                       ELSE EmptyDict
             state == Get(record, key[2], entities.sensors[key].state)
         IN  IF IsNoneDict(record) THEN NoneHasNo("get")
             ELSE IF key[2] \in CountTypes THEN Ok(state)
             ELSE IF key[2] \in ValueTypes THEN Ok(Round4(state))
             ELSE Ok(NewText(state))

NextSensors ==
    \/ \E p \in Refreshers :
         \/ TriggerLive(p)
         \/ Reply(p)
         \/ SleepDone(p)
         \/ Return(p)
    \/ UpstreamChange
    \/ SetupEntry

SpecSensors == Init /\ [][NextSensors]_vars

\* the entities that exist
Sensors == IF entities.kind = "added" THEN DOMAIN entities.sensors ELSE {}

\* the current snapshot has a record for the account
InSnapshot(account_id) == data.kind = "dict" /\ account_id \in Keys(data.items)

\* C23: a sensor entity reports itself unavailable, without raising, whenever
\* the current snapshot has no record for its account, and available whenever
\* it has one; its value is read without raising in both cases.
C23_UnavailableWithoutRecord ==
    \A key \in Sensors :
        /\ available(key) = [ok |-> TRUE, value |-> InSnapshot(key[1])]
        /\ native_value(key).ok

\* the entities of account 1 exist and a later refresh has published a
\* snapshot without account 1, which still holds account 2
C23_Witness ==
    /\ <<1, "payment-status", 0>> \in Sensors
    /\ <<2, "payment-status", 0>> \in Sensors
    /\ ~InSnapshot(1)
    /\ InSnapshot(2)
    /\ available(<<1, "payment-status", 0>>) = [ok |-> TRUE, value |-> FALSE]
    /\ available(<<2, "payment-status", 0>>) = [ok |-> TRUE, value |-> TRUE]

\* the value of the current snapshot that the sensor of the key is about
SnapshotValue(key) ==
    LET record == Value(data.items, key[1])
    IN  CASE key[2] = "payment-status" -> record.payment_status
          [] key[2] = "notification-count" -> record.notification_count
          [] key[2] = "camera-count" -> record.camera_count
          [] key[2] = "meter-value" ->
               LET history == Value(record.meters, key[3]).history
               IN  Round4(IF history = <<>> THEN [m |-> 0, e |-> 0]
                          ELSE history[Len(history)][2])

\* C26: the value a sensor reports for its account (payment status,
\* notification count, camera count, the current reading of a meter) is the
\* value in the current snapshot, not the one captured when the entity was
\* created.
C26_SensorReportsCurrentSnapshot ==
    \A key \in Sensors :
        (/\ key[2] \in {"payment-status", "notification-count", "camera-count", "meter-value"}
         /\ InSnapshot(key[1])
         /\ key[2] = "meter-value" => key[3] \in Keys(Value(data.items, key[1]).meters))
            => native_value(key) = [ok |-> TRUE, value |-> SnapshotValue(key)]


\* the notification-count sensor of account 2 still reports the count it was
\* created with, while the snapshot of a later refresh holds another
C26_StaleCount ==
    /\ <<2, "notification-count", 0>> \in Sensors
    /\ InSnapshot(2)
    /\ Value(data.items, 2).notification_count = 2
    /\ native_value(<<2, "notification-count", 0>>) = [ok |-> TRUE, value |-> 1]

\* C27: the current value taken for a meter sensor is the reading of the last
\* element of the meter's history, no entry of which is dated after it, and
\* 0.0 when the history is empty.
C27_CurrentValueIsLastReading ==
    (calc.fn = "history" /\ calc.pc = "taken") =>
        LET h == calc.history.value
        IN  IF h = <<>> THEN calc.current = [m |-> 0, e |-> 0]
            ELSE /\ calc.current = h[Len(h)][2]
                 /\ \A i \in 1..Len(h) :
                       ~DayBefore(CalendarDay(h[Len(h)][1]), CalendarDay(h[i][1]))
                 /\ \E d \in {D_0101, D_11, D_0102}, v \in {V_105, V_120} \cup NotedValues :
                       /\ \A i \in 1..Len(h) :
                             ~DayBefore(CalendarDay(d), CalendarDay(h[i][1]))
                       /\ calc.current = Reading(v)
                       /\ \/ \E i \in 1..Len(calc.history_items) :
                                calc.history_items[i] = [dateList |-> d, value1 |-> [value |-> v]]
                          \/ /\ HasLast(calc.meter)
                             /\ calc.meter.lastMeterValue = [dateList |-> d, listValue |-> v]

\* the items came newest first and the reading of the later day is taken
C27_Witness ==
    /\ calc.fn = "history"
    /\ calc.pc = "taken"
    /\ calc.history_items = <<[dateList |-> D_0102, value1 |-> [value |-> V_120]],
                              [dateList |-> D_0101, value1 |-> [value |-> V_105]]>>
    /\ ~HasLast(calc.meter)
    /\ calc.current = [m |-> 12, e |-> 0]

\* no item has a reading and the meter has no last reading: 0.0
C27_WitnessEmpty ==
    /\ calc.fn = "history"
    /\ calc.pc = "taken"
    /\ calc.history.value = <<>>
    /\ calc.current = [m |-> 0, e |-> 0]

\* the lookup table of the units
UnitTable(type_id) ==
    CASE type_id = "HotWater" -> "m^3"
      [] type_id = "ColdWater" -> "m^3"
      [] type_id = "Heating" -> "Gcal"
      [] type_id = "Electricity" -> "kWh"
      [] OTHER -> "None"

\* C28: the unit of a meter sensor is cubic meters for HotWater and
\* ColdWater, Gcal for Heating, kWh for Electricity and none for every other
\* or missing type code, in the sensor platform of either version.
C28_UnitByMeterType ==
    (calc.fn = "unit" /\ calc.pc = "returned") =>
        /\ calc.result.unit = UnitTable(calc.arg)
        /\ calc.result.legacy = UnitTable(calc.arg)

\* the same of the platform of version 1.2.0 alone
C28_UnitByMeterTypeCurrent ==
    (calc.fn = "unit" /\ calc.pc = "returned") => calc.result.unit = UnitTable(calc.arg)

\* an electricity meter of version 1.0.18 has no unit
C28_ElectricityWithoutUnit ==
    /\ calc.fn = "unit" /\ calc.pc = "returned"
    /\ calc.arg = "Electricity"
    /\ calc.result = [unit |-> "kWh", legacy |-> "None"]

(***************************************************************************)
(* The device identifier of an installation.  uuid.uuid4().hex[:16] is an  *)
(* arbitrary element of DeviceIds.  install.sent lists the authenticate()  *)
(* calls made for the installation so far, each with the caller and the    *)
(* app_instance_id it passed.  install.coordinators lists the coordinator  *)
(* objects created for the entry, the last one being the one of the        *)
(* current setup; each has its identifier, its two tokens and, per refresh *)
(* operation, where that refresh is: idle, awaiting authenticate(), asleep *)
(* between two attempts, or past _authenticate and fetching.               *)
(***************************************************************************)
NumDeviceIds == 2
MaxAuthCalls == 4
MaxCoordinators == 2
DeviceIds == 1..NumDeviceIds

\* authenticate(session, login, password, app_instance_id) is called
Send(caller, app_instance_id) == Append(install.sent, <<caller, app_instance_id>>)

\* the replies of authenticate(): those of every data operation, the data
\* with the two tokens, with the access token alone or with no token
AuthReplies ==
    {Wire(kind, payload) :
        kind \in ReplyKinds,
        payload \in {AuthPayload(Len(install.sent), TRUE),
                     AuthPayload(Len(install.sent), FALSE), EmptyDict}}

\* validate_input of the config flow, up to its await: a new identifier and
\* the authenticate() call with it
ValidateInput ==
    /\ install.pc = "flow"
    /\ Len(install.sent) < MaxAuthCalls
    /\ \E app_instance_id \in DeviceIds :
         install' = [install EXCEPT !.pc = "validating",
                                    !.sent = Send("validate_input", app_instance_id)]
    /\ UNCHANGED <<access_token, refresh_token, data, task, gen, faults, started, stream, calc,
                   entities>>

\* validate_input from the reply on, and async_step_user after it: with an
\* access token the entry is created with data=user_input; without one the
\* ValueError shows the form again; any other exception of authenticate()
\* is caught by neither and leaves the step
ValidateReply ==
    /\ install.pc = "validating"
    /\ \E reply \in AuthReplies :
         LET auth_data == authenticate(reply)
         IN  install' =
                [install EXCEPT
                    !.pc = IF auth_data.ok /\ Has(auth_data.value, "accessToken")
                           THEN "configured" ELSE "flow",
                    !.flow = IF ~auth_data.ok THEN "raised"
                             ELSE IF Has(auth_data.value, "accessToken") THEN "entry"
                             ELSE "form"]
    /\ UNCHANGED <<access_token, refresh_token, data, task, gen, faults, started, stream, calc,
                   entities>>

\* a refresh that is not running
IdleRefresh == [pc |-> "idle", attempt |-> 0]

\* LSRDataUpdateCoordinator(hass, entry): a new identifier, no token yet
Coordinator(app_instance_id) ==
    [app_instance_id |-> app_instance_id, access_token |-> NoToken,
     refresh_token |-> NoToken, refresh |-> [p \in Refreshers |-> IdleRefresh]]

\* the coordinator that was created last: the one async_setup_entry is
\* setting up or has stored in hass.data
Current == Len(install.coordinators)

\* _authenticate is entered by refresh p of coordinator c: attempt = 1 and
\* the first authenticate() call, with self.app_instance_id
EnterRefresh(coordinators, c, p) ==
    [coordinators EXCEPT ![c].refresh[p] = [pc |-> "authenticate", attempt |-> 1]]

\* async_setup_entry of the integration up to its first await that
\* suspends: the coordinator is created and its first refresh sends
\* authenticate()
NewCoordinator ==
    /\ install.pc = "configured"
    /\ Len(install.coordinators) < MaxCoordinators
    /\ Len(install.sent) < MaxAuthCalls
    /\ \E app_instance_id \in DeviceIds :
         install' =
            [install EXCEPT
                !.pc = "setup",
                !.coordinators =
                    EnterRefresh(Append(@, Coordinator(app_instance_id)), Len(@) + 1, "scheduled"),
                !.sent = Send("refresh", app_instance_id)]
    /\ UNCHANGED <<access_token, refresh_token, data, task, gen, faults, started, stream, calc,
                   entities>>

\* a refresh of the coordinator in hass.data starts (the scheduled one, or
\* a call of async_force_update_sensors) and sends its first authenticate()
RefreshAuthenticate(p) ==
    /\ install.pc \in {"loaded", "unloading"}
    /\ install.coordinators[Current].refresh[p].pc = "idle"
    /\ Len(install.sent) < MaxAuthCalls
    /\ install' = [install EXCEPT
                      !.coordinators = EnterRefresh(@, Current, p),
                      !.sent = Send("refresh", install.coordinators[Current].app_instance_id)]
    /\ UNCHANGED <<access_token, refresh_token, data, task, gen, faults, started, stream, calc,
                   entities>>

\* the refresh is over: the first refresh of a setup decides it, with
\* hass.data[DOMAIN][entry.entry_id] = coordinator_instance after a success
\* and with no coordinator stored after an error
EndRefresh(installed, c, p, ok) ==
    [installed EXCEPT
        !.coordinators[c].refresh[p] = IdleRefresh,
        !.pc = IF c = Current /\ p = "scheduled" /\ @ = "setup"
               THEN (IF ok THEN "loaded" ELSE "configured")
               ELSE @]

\* the reply of authenticate() reaches refresh p of coordinator c: one pass
\* of the loop of _authenticate from the reply on, which stores the tokens,
\* or sleeps before the next attempt, or gives up after the last one
AuthenticateReply(c, p) ==
    /\ c <= Len(install.coordinators)
    /\ install.coordinators[c].refresh[p].pc = "authenticate"
    /\ \E reply \in AuthReplies :
       \E next \in {AuthStep([IdleTask EXCEPT
                                 !.attempt = install.coordinators[c].refresh[p].attempt],
                             p, reply,
                             install.coordinators[c].access_token,
                             install.coordinators[c].refresh_token)} :
       \E stored \in {[install EXCEPT
                          !.coordinators[c].access_token = next.access_token,
                          !.coordinators[c].refresh_token = next.refresh_token]} :
         install' =
            IF next.task.pc = "get_accounts"
            THEN [stored EXCEPT !.coordinators[c].refresh[p].pc = "fetch"]
            ELSE IF next.task.pc = "sleep"
            THEN [stored EXCEPT !.coordinators[c].refresh[p].pc = "sleep"]
            ELSE EndRefresh(stored, c, p, FALSE)
    /\ UNCHANGED <<access_token, refresh_token, data, task, gen, faults, started, stream, calc,
                   entities>>

\* asyncio.sleep(15) is over: attempt += 1 and the next authenticate() call
RetryAuthenticate(c, p) ==
    /\ c <= Len(install.coordinators)
    /\ install.coordinators[c].refresh[p].pc = "sleep"
    /\ Len(install.sent) < MaxAuthCalls
    /\ install' = [install EXCEPT
                      !.coordinators[c].refresh[p] =
                          [pc |-> "authenticate", attempt |-> @.attempt + 1],
                      !.sent = Send("retry", install.coordinators[c].app_instance_id)]
    /\ UNCHANGED <<access_token, refresh_token, data, task, gen, faults, started, stream, calc,
                   entities>>

\* the fetches of the refresh, which follow _authenticate, end: with the
\* account records or with an error
RefreshReturn(c, p) ==
    /\ c <= Len(install.coordinators)
    /\ install.coordinators[c].refresh[p].pc = "fetch"
    /\ \E ok \in BOOLEAN : install' = EndRefresh(install, c, p, ok)
    /\ UNCHANGED <<access_token, refresh_token, data, task, gen, faults, started, stream, calc,
                   entities>>

\* async_unload_entry up to its await: the platforms are being unloaded
UnloadEntry ==
    /\ install.pc = "loaded"
    /\ install' = [install EXCEPT !.pc = "unloading"]
    /\ UNCHANGED <<access_token, refresh_token, data, task, gen, faults, started, stream, calc,
                   entities>>

\* if unload_ok: hass.data[DOMAIN].pop(entry.entry_id): the entry is set up
\* again on a reload or a restart; after a failed unload the coordinator
\* stays in hass.data
UnloadDone ==
    /\ install.pc = "unloading"
    /\ \E unload_ok \in BOOLEAN :
         install' = [install EXCEPT !.pc = IF unload_ok THEN "configured" ELSE "loaded"]
    /\ UNCHANGED <<access_token, refresh_token, data, task, gen, faults, started, stream, calc,
                   entities>>

NextInstall ==
    \/ ValidateInput
    \/ ValidateReply
    \/ NewCoordinator
    \/ \E p \in Refreshers : RefreshAuthenticate(p)
    \/ \E c \in 1..MaxCoordinators, p \in Refreshers :
         \/ AuthenticateReply(c, p)
         \/ RetryAuthenticate(c, p)
         \/ RefreshReturn(c, p)
    \/ UnloadEntry
    \/ UnloadDone

SpecInstall == Init /\ [][NextInstall]_vars

\* C24: every authentication performed for the installation (by the config
\* flow, by every attempt of every refresh, by every coordinator created for
\* the entry) carries the same device identifier.
C24_OneDeviceIdPerInstall ==
    \A i, j \in 1..Len(install.sent) : install.sent[i][2] = install.sent[j][2]

\* the config flow authenticated with one identifier and the coordinator of
\* the entry it created with another
C24_FlowAndCoordinatorDiffer ==
    /\ Len(install.sent) = 2
    /\ install.sent[1] = <<"validate_input", 1>>
    /\ install.sent[2] = <<"refresh", 2>>

\* the coordinator after a reload authenticates with another identifier than
\* the one before it
C24_CoordinatorsDiffer ==
    /\ Len(install.coordinators) = 2
    /\ \E i, j \in 1..Len(install.sent) :
         /\ install.sent[i][1] = "refresh"
         /\ install.sent[j][1] = "refresh"
         /\ install.sent[i][2] # install.sent[j][2]

(***************************************************************************)
(* The two refresh modes against one upstream revision: the revision is    *)
(* any of 1..MaxGen and does not change, the first refresh is the full one *)
(* of the setup, and forced refreshes follow a published snapshot.         *)
(***************************************************************************)
InitModes ==
    /\ access_token = NoToken
    /\ refresh_token = NoToken
    /\ data = NoData
    /\ task = [p \in Refreshers |-> IdleTask]
    /\ gen \in 1..MaxGen
    /\ faults = 0
    /\ started = 0
    /\ stream = IdleStream
    /\ entities = NoEntities
    /\ install = NewInstall
    /\ calc = NoCalc

NextModes ==
    \E p \in Refreshers :
        \/ TriggerLive(p)
        \/ Reply(p)
        \/ SleepDone(p)
        \/ Return(p)
SpecModes == InitModes /\ [][NextModes]_vars

\* what the two modes are to agree on: the accounts and, for each, the
\* fields that are taken from the account list, the account detail, the
\* requests and the meters
CommonFields ==
    {"payment_status", "notification_count", "address", "personal_account", "accruals",
     "communal_requests", "meters"}
Common(snapshot) ==
    [a \in Keys(snapshot) |-> [f \in CommonFields |-> Value(snapshot, a)[f]]]

\* the snapshot was published by a full refresh: it holds the cameras
IsFull(snapshot) == \E a \in Keys(snapshot) : Value(snapshot, a).cameras # <<>>

\* C25: a sensors-only refresh that succeeds against the upstream responses
\* a full refresh has succeeded against publishes the same account set and,
\* for each account, the same payment status, notification count, address,
\* personal-account number, accruals, communal requests and meters as the
\* snapshot of the full refresh, which was the published one when it started.
C25_ModesAgreeOnCommonFields ==
    \A f \in ForcedRefreshers :
        (Succeeded(task[f]) /\ task[f].before # NoData)
            => /\ Common(task[f].outcome.result) = Common(task[f].before.items)
               /\ \A a \in Keys(task[f].outcome.result) :
                     /\ Value(task[f].outcome.result, a).payment_status # <<>>
                     /\ Value(task[f].outcome.result, a).notification_count = gen

\* a sensors-only refresh has succeeded after a full one, against the
\* revision that lists both accounts
C25_Witness ==
    /\ Succeeded(task["forced"])
    /\ task["forced"].before # NoData
    /\ IsFull(task["forced"].before.items)
    /\ ~IsFull(data.items)
    /\ Keys(data.items) = 1..NumAccounts
    /\ Value(data.items, 1).payment_status = <<"P", "a", "i", "d">>
    /\ Value(data.items, 1).meters # EmptyDict

\* the sensors-only refresh f succeeds in this step
ForcedSucceeds(f) == ~Succeeded(task[f]) /\ Succeeded(task'[f])

\* C30: when a sensors-only refresh succeeds, after the full refresh that
\* published the snapshot before it, the published snapshot is its result and
\* holds for every account an empty camera list, a camera count of 0 and
\* empty main-pass and guest-pass data; nothing of the cameras and passes
\* published before is kept.
C30_ForcedRefreshDropsCamerasAndPasses ==
    [][\A f \in ForcedRefreshers :
          ForcedSucceeds(f) =>
              /\ data' = Snapshot(task'[f].outcome.result)
              /\ \A a \in Keys(data'.items) :
                    /\ Value(data'.items, a).cameras = <<>>
                    /\ Value(data'.items, a).camera_count = 0
                    /\ Value(data'.items, a).main_pass = <<>>
                    /\ Value(data'.items, a).guest_passes = <<>>]_vars

\* the snapshot of the full refresh held a camera and both passes of account
\* 2, the one of the sensors-only refresh after it holds none
C30_Witness ==
    /\ Succeeded(task["forced"])
    /\ task["forced"].before # NoData
    /\ 2 \in Keys(task["forced"].before.items)
    /\ Value(task["forced"].before.items, 2).camera_count = 1
    /\ Value(task["forced"].before.items, 2).main_pass # <<>>
    /\ Value(task["forced"].before.items, 2).guest_passes # <<>>
    /\ data = Snapshot(task["forced"].outcome.result)
    /\ Value(data.items, 2).cameras = <<>>
    /\ Value(data.items, 2).camera_count = 0
    /\ Value(data.items, 2).main_pass = <<>>
    /\ Value(data.items, 2).guest_passes = <<>>


\* C31: the access token and the refresh token of the coordinator come from
\* one successful authentication response (or are both still unset): an
\* attempt that fails, also on a response with an access token and no refresh
\* token, changes neither.
C31_TokensFromOneResponse ==
    \E cycle \in 0..MaxRefreshes :
        /\ access_token = IF cycle = 0 THEN NoToken ELSE AuthPayload(cycle, TRUE).accessToken
        /\ refresh_token = IF cycle = 0 THEN NoToken ELSE AuthPayload(cycle, TRUE).refreshToken

\* the attempt on a response without a refresh token has failed and sleeps,
\* and the access token is the one of that response beside the refresh token
\* of an earlier one
C31_HalfStoredTokens ==
    \E p \in Refreshers :
        /\ task[p].pc = "sleep"
        /\ access_token = AuthPayload(task[p].cycle, FALSE).accessToken
        /\ refresh_token # access_token

\* the snapshot is what one refresh cycle of the mode assembles from the
\* account list of revision g: a record for each listed account and no other,
\* each from that revision's list and of that mode
OfOneCycle(snapshot, g, full) ==
    /\ [i \in 1..Len(snapshot) |-> snapshot[i][1]] = ListedAccounts(g)
    /\ \A i \in 1..Len(snapshot) : LET record == snapshot[i][2] IN
          /\ record.notification_count = g
          /\ record.payment_status = (IF g % 2 = 1 THEN <<"P", "a", "i", "d">>
                                           ELSE <<"D", "e", "b", "t">>)
          /\ record.camera_count = (IF full THEN 1 ELSE 0)
          /\ Len(record.cameras) = record.camera_count
          /\ record.meters # <<>>

\* C32: under every interleaving of the two refreshes the published snapshot
\* is the complete result of one refresh cycle: it holds a record for every
\* account that cycle listed, all of them assembled by that cycle, and never
\* the records of a cycle that is still fetching.
C32_SnapshotOfOneCycle ==
    data # NoData =>
        /\ \E g \in 1..MaxGen, full \in BOOLEAN : OfOneCycle(data.items, g, full)
        /\ \A p \in Refreshers :
              (InFlight(p) /\ task[p].detailed_data # EmptyDict)
                  => data.items # task[p].detailed_data

\* the scheduled and a forced refresh are fetching, each has assembled the
\* record of account 1, and the published snapshot is still the whole one of
\* the refresh before them
C32_Witness ==
    /\ data # NoData
    /\ \A p \in {"scheduled", "forced"} :
          /\ InFlight(p)
          /\ Keys(task[p].detailed_data) = {1}
    /\ Keys(data.items) = 1..NumAccounts
    /\ data = task["forced"].before


\* refresh p publishes in this step over the snapshot that refresh q, which
\* started after p, has published and not yet returned from
PublishesOverLater(p, q) ==
    /\ InFlight(p)
    /\ Succeeded(task'[p])
    /\ Succeeded(task[q])
    /\ task[q].cycle > task[p].cycle
    /\ data = Snapshot(task[q].outcome.result)

\* C33: when the two refreshes overlap, the snapshot of the one that started
\* earlier never replaces the snapshot the one that started later has already
\* published.
C33_EarlierNeverReplacesLater ==
    [][\A p, q \in Refreshers : PublishesOverLater(p, q) => data' = data]_vars

\* the scheduled refresh started first and published last: the snapshot is
\* its result, though the forced refresh that started after it had published
C33_EarlierPublishedLast ==
    /\ Succeeded(task["scheduled"])
    /\ Succeeded(task["forced"])
    /\ task["scheduled"].cycle < task["forced"].cycle
    /\ data = Snapshot(task["scheduled"].outcome.result)
    /\ data # Snapshot(task["forced"].outcome.result)
    /\ task["forced"].before # NoData


\* refresh p issues a data-fetch call in this step; the call is made with
\* self.access_token as it is at that moment
IssuesCall(p) ==
    /\ InFlight(p)
    /\ Len(task'[p].calls) > Len(task[p].calls)

\* C34: every data-fetch call of a refresh cycle carries the access token
\* that the cycle's own authentication obtained, also when the other refresh
\* authenticates while the cycle is in progress.
C34_CallsCarryOwnToken ==
    [][\A p \in Refreshers :
          IssuesCall(p) => access_token' = AuthPayload(task[p].cycle, TRUE).accessToken]_vars

\* the scheduled refresh is fetching the data of an account while the token
\* of the coordinator is the one the forced refresh, started after it, has
\* just obtained
C34_ForeignToken ==
    /\ task["scheduled"].pc \in {"get_communal_requests", "get_meters", "get_meter_history"}
    /\ task["forced"].pc = "get_accounts"
    /\ task["forced"].cycle > task["scheduled"].cycle
    /\ access_token = AuthPayload(task["forced"].cycle, TRUE).accessToken
    /\ access_token # AuthPayload(task["scheduled"].cycle, TRUE).accessToken

\* refresh p ends its fetch pass in this step and its result is published
Publishes(p) == InFlight(p) /\ Succeeded(task'[p])

\* C35: the keys of a snapshot that is published are the account
\* identifiers of the account list its cycle got: no listed account is
\* missing and no account of an earlier snapshot that is not listed is kept.
C35_KeysAreListedAccounts ==
    [][\A p \in Refreshers :
          Publishes(p) =>
              Keys(data'.items) =
                  {task[p].accounts_data[i].objectId.id : i \in 1..Len(task[p].accounts_data)}]_vars

\* the snapshot before the refresh held accounts 1 and 2, the cycle listed
\* account 2 alone and the published snapshot holds account 2 alone
C35_Witness ==
    \E p \in Refreshers :
        /\ Succeeded(task[p])
        /\ task[p].before # NoData
        /\ Keys(task[p].before.items) = {1, 2}
        /\ task[p].calls[2] = <<"get_account_data", 2>>
        /\ data = [kind |-> "dict", items |-> task[p].outcome.result]
        /\ Keys(data.items) = {2}

\* the entries of the meter list of account a that have an identifier: an
\* objectId with an id that is neither empty nor null
Identified(g, a) ==
    LET items == UpstreamMeters(g, a).items
    IN  {j \in 1..Len(items) : /\ "objectId" \in DOMAIN items[j]
                               /\ "id" \in DOMAIN items[j].objectId
                               /\ items[j].objectId.id > 0}
\* the identifiers of those entries
ListedMeterIds(g, a) ==
    {UpstreamMeters(g, a).items[i].objectId.id : i \in Identified(g, a)}

\* the entries of the meter list of account a that have no identifier
Unidentified(g, a) == (1..Len(UpstreamMeters(g, a).items)) \ Identified(g, a)

\* the history fetches refresh task t has issued
HistoryFetches(t) ==
    {i \in 1..Len(t.calls) : t.calls[i][1] = "get_meter_history"}

\* C36: a refresh is not failed by the entries of a meter list that have no
\* objectId or no id (none or an empty one): when it succeeds, the meters of
\* every account are exactly the listed meters that have an identifier, and
\* it has issued one history fetch for each of them and none else.
C36_UnidentifiedMetersSkipped ==
    \A p \in Refreshers :
        Succeeded(task[p]) =>
            LET result == task[p].outcome.result
            IN  /\ \A a \in Keys(result) :
                      Keys(Value(result, a).meters) = ListedMeterIds(gen, a)
                /\ {task[p].calls[i][2] : i \in HistoryFetches(task[p])} =
                       UNION {ListedMeterIds(gen, a) : a \in Keys(result)}
                /\ Cardinality(HistoryFetches(task[p])) =
                       Cardinality(UNION {ListedMeterIds(gen, a) : a \in Keys(result)})

\* a refresh has succeeded for account 2, whose meter list holds an entry
\* without objectId, one with a null objectId, one without id, one with an
\* empty id, one with a null id and one meter
C36_Witness ==
    \E p \in Refreshers :
        /\ Succeeded(task[p])
        /\ 2 \in Keys(task[p].outcome.result)
        /\ Cardinality(Unidentified(gen, 2)) = 5
        /\ Keys(Value(task[p].outcome.result, 2).meters) = {MeterId(2, 1)}


\* C37: the personal-account number of an account depends only on its title:
\* when the title holds "L/s #" followed by digits, the number is that digit
\* run, also when the custom-fields block of the account is missing or
\* malformed.
C37_NumberDependsOnTitleAlone ==
    (/\ calc.fn = "account" /\ calc.pc # "input"
     /\ HasTitleText(calc.arg)
     /\ HasNumber(calc.arg.objectId.title)) =>
        /\ calc.pc = "returned"
        /\ IsNumberOf(calc.result.value.personal_account,
                      calc.arg.objectId.title)

\* an account whose title holds the number and whose custom-fields block is
\* missing or malformed was parsed, and its number is the error sentinel
C37_NumberLostWithAddress ==
    /\ calc.fn = "account" /\ calc.pc = "returned"
    /\ HasTitleText(calc.arg)
    /\ HasNumber(calc.arg.objectId.title)
    /\ ~HasCellText(calc.arg)
    /\ calc.result.value.personal_account = PARSE_ERROR

\* an account with the same title and a well-formed block was parsed, and its
\* number is the digit run of the title
C37_NumberKeptWithAddress ==
    /\ calc.fn = "account" /\ calc.pc = "returned"
    /\ HasTitleText(calc.arg)
    /\ HasCellText(calc.arg)
    /\ IsNumberOf(calc.result.value.personal_account, calc.arg.objectId.title)
====
